---- MODULE Spec2Model ----
(***************************************************************************)
(* A model of the resilient JSON-RPC invocation layer of M_Assignment:     *)
(*   utils/api-utils.ts   handleError, apiRequestWithTimeout,              *)
(*                        validateApiResponse, retryApiRequest             *)
(*   utils/rpc-factory.ts RpcFactory.createRequest / callRpcMethod         *)
(*   clients/rpc-api-client.ts  RpcAPIClient                               *)
(*   builders/rpc-test-scenario-builder.ts  RpcTestScenarioBuilder         *)
(* and of the two flows of the UI layer that carry state or branch:        *)
(*   flows/node-flow.ts   NodeFlow.copyNodeUrls                            *)
(*   flows/login-flow.ts  LoginFlow.performLogin                           *)
(*                                                                         *)
(* JavaScript values are records tagged by their type in the field t.      *)
(* Field strings are sequences of one-character strings, so that the       *)
(* regular expressions of validateApiResponse are computed character by    *)
(* character. Error messages are sequences of text fragments, so that a    *)
(* template literal is a concatenation and "contains" is a real search.    *)
(***************************************************************************)
EXTENDS Naturals, Integers, Sequences, FiniteSets, TLC

VARIABLES
  response,         \* validateApiResponse: the payload under validation
  validation,       \* validateApiResponse: NotRun, or how the call ended
  retries,          \* retryApiRequest: the parameter retries
  retryErrorType,   \* retryApiRequest: the parameter errorType
  attempts,         \* retryApiRequest: the local counter attempts
  invocations,      \* retryApiRequest: how many times action() was called
  history,          \* retryApiRequest: how each invocation of action settled
  retryPc,          \* retryApiRequest: "idle", "loop", "await" or "done"
  retryResult,      \* retryApiRequest: NotRun, or how the call ended
  timeoutErrorType, \* apiRequestWithTimeout: the parameter errorType
  racePc,           \* apiRequestWithTimeout: "idle", "start", "await", "done"
  actionState,      \* the promise action() returned: Pending or its outcome
  timerState,       \* the setTimeout timer: "idle", "armed" or "fired"
  race,             \* the promise Promise.race returned: Pending or its outcome
  settleOrder,      \* which of "action" and "timer" settled, in order
  timeoutResult,    \* apiRequestWithTimeout: NotRun, or how the call ended
  nodeUrl,          \* RpcAPIClient: the field nodeUrl of the instance
  previous,         \* RpcAPIClient: how the call before this one ended
  operation,        \* RpcAPIClient: the operation that was called
  argument,         \* RpcAPIClient: the argument it was called with
  requests,         \* RpcAPIClient: one record per invocation of the action
                    \* handed to retryApiRequest (a Transport request, or
                    \* the local action of fetchTransactionHash)
  clientPc,         \* RpcAPIClient: "idle", "call" or "done"
  clientResult,     \* RpcAPIClient: NotRun, or how the operation ended
  blockNumber,      \* RpcTestScenarioBuilder: the field blockNumber
  blockDetails,     \* RpcTestScenarioBuilder: the field blockDetails
  transactionHash,  \* RpcTestScenarioBuilder: the field transactionHash
  stage,            \* RpcTestScenarioBuilder: the stage called last
  builderPc,        \* RpcTestScenarioBuilder: "idle", or where the call of
                    \* fetchTransactionHash stands: "poll" or "delay"
  pollRetries,      \* fetchTransactionHash: the local counter retries
  waited,           \* fetchTransactionHash: milliseconds spent in delays
  stageResult,      \* NotRun, Pending, or how the stage called last ended
  sent,             \* the requests the stage called last has sent
  nodeTransactions, \* the transactions the node holds for the block now
  observed,         \* nodeTransactions at each test of the polling loop
  supplied,         \* the results the endpoint has supplied to a scenario
  flowNodeUrl,      \* NodeFlow: the field nodeUrl of the instance
  urlFields,        \* node page: the values of URL input fields 0 and 1
  accordionOpen,    \* node page: whether the node's accordion is open
  copyPc,           \* copyNodeUrls: "idle", where the call stands, "done"
  site1Url,         \* copyNodeUrls: the local site1Url
  site2Url,         \* copyNodeUrls: the local site2Url
  copyResult,       \* copyNodeUrls: NotRun, or how the call ended
  email,            \* performLogin: the parameter email
  password,         \* performLogin: the parameter password
  loginPc,          \* performLogin: "idle", where the call stands, "done"
  isLoggedIn,       \* performLogin: the local isLoggedIn
  submitClicks,     \* login page: how often clickSubmitButton was called
  checks,           \* login page: what the calls of isLoggedIn returned
  loginResult       \* performLogin: NotRun, or how the call ended

validateVars == <<response, validation>>
retryVars == <<retries, retryErrorType, attempts, invocations, history,
               retryPc, retryResult>>
timeoutVars == <<timeoutErrorType, racePc, actionState, timerState, race,
                 settleOrder, timeoutResult>>
clientVars == <<nodeUrl, previous, operation, argument, requests, clientPc,
                clientResult>>
uiVars == <<flowNodeUrl, urlFields, accordionOpen, copyPc, site1Url, site2Url,
            copyResult, email, password, loginPc, isLoggedIn, submitClicks,
            checks, loginResult>>
builderFields == <<blockNumber, blockDetails, transactionHash>>
builderVars == <<builderFields, stage, builderPc, pollRetries, waited,
                 stageResult, sent, nodeTransactions, observed, supplied>>
vars == <<validateVars, retryVars, timeoutVars, clientVars, builderVars,
          uiVars>>

(***************************************************************************)
(* Bounds of the model.                                                    *)
(***************************************************************************)
\* longest field string drawn freely over Alphabet
MaxLen == 3
\* largest retries parameter given to retryApiRequest
MaxRetries == 3

(***************************************************************************)
(* JavaScript values.                                                      *)
(***************************************************************************)
Undefined == [t |-> "undefined"]
Null == [t |-> "null"]
Str(s) == [t |-> "string", s |-> s]
\* the error member of an RpcResponse: { code, message }
ErrorField(m) == [t |-> "object", message |-> m]

\* ToBoolean: undefined, null and the empty string are falsy; objects and
\* non-empty strings are truthy.
Truthy(v) ==
  CASE v.t = "undefined" -> FALSE
    [] v.t = "null" -> FALSE
    [] v.t = "string" -> Len(v.s) > 0
    [] OTHER -> TRUE

RECURSIVE Rep(_, _)
Rep(c, n) == IF n = 0 THEN <<>> ELSE <<c>> \o Rep(c, n - 1)

HexChars == {"0", "1", "2", "3", "4", "5", "6", "7", "8", "9",
             "a", "b", "c", "d", "e", "f", "A", "B", "C", "D", "E", "F"}

\* the characters field strings are drawn from: a digit, the x of the prefix,
\* a lower-case and an upper-case hex letter, and a letter that is not hex
Alphabet == {"0", "x", "a", "F", "g"}

\* ToString of the argument of RegExp.prototype.test
ToChars(v) ==
  CASE v.t = "string" -> v.s
    [] v.t = "null" -> <<"n", "u", "l", "l">>
    [] v.t = "undefined" -> <<"u", "n", "d", "e", "f", "i", "n", "e", "d">>
    [] OTHER -> <<"[", "o", "b", "j", "e", "c", "t", "]">>

\* /^0x[a-fA-F0-9]+$/.test(v)
TestHexPlus(v) ==
  LET s == ToChars(v) IN
    /\ Len(s) >= 3
    /\ s[1] = "0" /\ s[2] = "x"
    /\ \A i \in 3..Len(s) : s[i] \in HexChars

\* /^0x[a-fA-F0-9]{n}$/.test(v)
TestHexExact(v, n) ==
  LET s == ToChars(v) IN
    /\ Len(s) = n + 2
    /\ s[1] = "0" /\ s[2] = "x"
    /\ \A i \in 3..Len(s) : s[i] \in HexChars

\* the {64} of the hash pattern and the {40} of the address pattern
HashHexLen == 64
AddressHexLen == 40

(***************************************************************************)
(* Errors: kind is the class of the thrown value ("NonError" for a thrown  *)
(* value that is no instance of Error), msg its message.                   *)
(***************************************************************************)
NewError(m) == [kind |-> "Error", msg |-> m]

ErrorClasses == {"Error", "RPCError", "WalletAPIError", "UserAPIError",
                 "GenericAPIError"}

InstanceOfError(e) == e.kind \in ErrorClasses

\* the switch of handleError
ErrorClassOfWithoutUserApi(errorType) ==
  CASE errorType = "RPC" -> "RPCError"
    [] errorType = "WALLET_API" -> "WalletAPIError"
    [] OTHER -> "GenericAPIError"

ErrorClassOf(errorType) ==
  CASE errorType = "RPC" -> "RPCError"
    [] errorType = "WALLET_API" -> "WalletAPIError"
    [] errorType = "USER_API" -> "UserAPIError"
    [] OTHER -> "GenericAPIError"

handleErrorLosesMessage(error, errorType) ==
  [kind |-> ErrorClassOf(errorType), msg |-> <<"Unknown error">>]

\* handleError(error, contextMessage, errorType): the error it throws. The
\* context message is only logged.
handleError(error, errorType) ==
  [kind |-> ErrorClassOf(errorType),
   msg |-> IF InstanceOfError(error) THEN error.msg ELSE <<"Unknown error">>]

NotRun == [tag |-> "none"]
Pending == [tag |-> "pending"]
Returned(v) == [tag |-> "ok", value |-> v]
Thrown(e) == [tag |-> "err", err |-> e]

(***************************************************************************)
(* validateApiResponse (utils/api-utils.ts).                               *)
(***************************************************************************)
Payload(e, n, h, ti, f, to) ==
  [t |-> "object", error |-> e, number |-> n, hash |-> h,
   transactionIndex |-> ti, from |-> f, to |-> to, transactions |-> Undefined]

\* the message of the error built for a populated error field:
\* `RPC Error: ${response.error.message}`
RpcErrorMessageDropped(m) == <<"RPC Error: ">>

RpcErrorMessage(m) == <<"RPC Error: ">> \o m

\* if (!response.number && !response.hash && !response.transactionIndex)
NoRecognizedShapeUnlessFrom(resp) ==
  /\ ~Truthy(resp.number) /\ ~Truthy(resp.hash)
  /\ ~Truthy(resp.transactionIndex) /\ ~Truthy(resp.from)

NoRecognizedShape(resp) ==
  /\ ~Truthy(resp.number) /\ ~Truthy(resp.hash)
  /\ ~Truthy(resp.transactionIndex)

\* validateApiResponse(response, errorMessage, errorType): Returned(Undefined)
\* when it returns, Thrown(e) for the first handleError it reaches.
validateApiResponse(resp, errorType) ==
  LET fail(m) == Thrown(handleError(NewError(m), errorType)) IN
  IF ~Truthy(resp)
    THEN fail(<<"Response is null or undefined">>)
  ELSE IF Truthy(resp.error)
    THEN fail(RpcErrorMessage(resp.error.message))
  ELSE IF Truthy(resp.number) /\ Truthy(resp.hash) /\ ~TestHexPlus(resp.number)
    THEN fail(<<"Invalid block number format">>)
  ELSE IF Truthy(resp.number) /\ Truthy(resp.hash)
          /\ ~TestHexExact(resp.hash, HashHexLen)
    THEN fail(<<"Invalid block hash format">>)
  ELSE IF Truthy(resp.transactionIndex) /\ Truthy(resp.from) /\ Truthy(resp.to)
          /\ ~TestHexExact(resp.from, AddressHexLen)
    THEN fail(<<"Invalid \"from\" address format">>)
  ELSE IF Truthy(resp.transactionIndex) /\ Truthy(resp.from) /\ Truthy(resp.to)
          /\ resp.to # Null /\ ~TestHexExact(resp.to, AddressHexLen)
    THEN fail(<<"Invalid \"to\" address format">>)
  ELSE IF Truthy(resp.transactionIndex) /\ Truthy(resp.from) /\ Truthy(resp.to)
          /\ ~TestHexPlus(resp.transactionIndex)
    THEN fail(<<"Invalid transaction index format">>)
  ELSE IF NoRecognizedShape(resp)
    THEN fail(<<"Block or transaction response are invalid">>)
  ELSE Returned(Undefined)

(***************************************************************************)
(* The payloads validation is tried on.                                    *)
(***************************************************************************)
RECURSIVE StringsUpTo(_)
StringsUpTo(n) ==
  IF n = 0 THEN {<<>>}
  ELSE LET shorter == StringsUpTo(n - 1) IN
       shorter \cup {Append(s, c) : s \in shorter, c \in Alphabet}

FreeStrings == {Str(s) : s \in StringsUpTo(MaxLen)}

\* hashes: well formed, one character short, one long, a non-hex character,
\* without the prefix, and the empty string
ValidHash == Str(<<"0", "x">> \o Rep("a", HashHexLen))
OtherValidHash == Str(<<"0", "x">> \o Rep("F", HashHexLen - 1) \o <<"7">>)
HashValues ==
  {Undefined, Str(<<>>), ValidHash, OtherValidHash,
   Str(<<"0", "x">> \o Rep("a", HashHexLen - 1)),
   Str(<<"0", "x">> \o Rep("a", HashHexLen + 1)),
   Str(<<"0", "x">> \o Rep("a", HashHexLen - 1) \o <<"g">>),
   Str(Rep("a", HashHexLen + 2))}

ValidAddress == Str(<<"0", "x">> \o Rep("c", AddressHexLen))
AddressValues ==
  {Undefined, Str(<<>>), ValidAddress,
   Str(<<"0", "x">> \o Rep("c", AddressHexLen - 1)),
   Str(<<"0", "x">> \o Rep("c", AddressHexLen - 1) \o <<"g">>)}

ErrorMessages == {<<>>, <<"execution reverted">>, <<"rate limit", " exceeded">>}
\* block-shaped candidates: any number, any hash
BlockPayloads ==
  {Payload(Undefined, n, h, Undefined, Undefined, Undefined) :
     n \in {Undefined} \cup FreeStrings, h \in HashValues}

\* transaction-shaped candidates: any transactionIndex, from and to
TransactionPayloads ==
  {Payload(Undefined, Undefined, Undefined, ti, f, to) :
     ti \in {Undefined} \cup FreeStrings,
     f \in AddressValues, to \in AddressValues \cup {Null}}

\* candidates with a populated error member, next to any other members
ErrorPayloads ==
  {Payload(ErrorField(m), n, h, ti, f, to) :
     m \in ErrorMessages,
     n \in {Undefined, Str(<<"0", "x", "a">>), Str(<<"g">>)},
     h \in {Undefined, ValidHash},
     ti \in {Undefined, Str(<<"0", "x", "a">>)},
     f \in {Undefined, ValidAddress},
     to \in {Null, ValidAddress}}

Payloads ==
  {Undefined, Null} \cup BlockPayloads \cup TransactionPayloads
    \cup ErrorPayloads

\* the members of the enum ErrorType, and a string that is none of them
ErrorTypes == {"RPC", "WALLET_API", "USER_API", "GENERIC_API", "rpc"}

ValidateIdle == response = Undefined /\ validation = NotRun
RetryIdle ==
  /\ retries = 0 /\ retryErrorType = "GENERIC_API" /\ attempts = 0
  /\ invocations = 0 /\ history = <<>> /\ retryPc = "idle"
  /\ retryResult = NotRun
TimeoutIdle ==
  /\ timeoutErrorType = "GENERIC_API" /\ racePc = "idle"
  /\ actionState = Pending /\ timerState = "idle" /\ race = Pending
  /\ settleOrder = <<>> /\ timeoutResult = NotRun

ClientIdle ==
  /\ nodeUrl = "none" /\ previous = "none"
  /\ operation = "none" /\ argument = Undefined /\ requests = <<>>
  /\ clientPc = "idle"
  /\ clientResult = NotRun

NodeFlowIdle ==
  /\ flowNodeUrl = Null /\ urlFields = <<Str(<<>>), Str(<<>>)>>
  /\ accordionOpen = FALSE /\ copyPc = "idle"
  /\ site1Url = Undefined /\ site2Url = Undefined /\ copyResult = NotRun

LoginIdle ==
  /\ email = Undefined /\ password = Undefined /\ loginPc = "idle"
  /\ isLoggedIn = FALSE /\ submitClicks = 0 /\ checks = <<>>
  /\ loginResult = NotRun

BuilderIdle ==
  /\ blockNumber = Null /\ blockDetails = Null /\ transactionHash = Null
  /\ stage = "none" /\ builderPc = "idle" /\ pollRetries = 0 /\ waited = 0
  /\ stageResult = NotRun /\ sent = <<>>
  /\ nodeTransactions = Undefined /\ observed = <<>> /\ supplied = <<>>

ValidateInit ==
  /\ response \in Payloads
  /\ validation = NotRun
  /\ RetryIdle /\ TimeoutIdle /\ ClientIdle
  /\ BuilderIdle /\ NodeFlowIdle /\ LoginIdle

\* one call validateApiResponse(response, errorMessage, errorType)
Validate ==
  /\ validation = NotRun
  /\ \E errorType \in {"RPC", "GENERIC_API"} :
       validation' = validateApiResponse(response, errorType)
  /\ UNCHANGED <<response, retryVars, timeoutVars, clientVars>>
  /\ UNCHANGED <<builderVars, uiVars>>

ValidateNext == Validate
SpecValidate == ValidateInit /\ [][ValidateNext]_vars

(***************************************************************************)
(* retryApiRequest (utils/api-utils.ts), around an arbitrary action.       *)
(***************************************************************************)
\* what an action may resolve with, and what it may throw: Error instances
\* with different messages, an error of a subclass, and a thrown value that
\* is no Error
ActionValues == {"v1", "v2"}
ActionErrors ==
  {NewError(<<"connect ECONNREFUSED">>),
   NewError(<<"Request failed with status code 500">>),
   [kind |-> "RPCError", msg |-> <<"API request timed out">>],
   [kind |-> "NonError", msg |-> <<"thrown string">>]}

\* while (attempts < retries)
RetryLoopCondition(a, n) == a < n

\* if (attempts >= retries), read after attempts++
RetryGivesUpOneEarly(a, n) == a + 1 >= n

RetryGivesUpLate(a, n) == a > n

RetryGivesUp(a, n) == a >= n

RetryInit ==
  /\ retries \in (-1)..MaxRetries
  /\ retryErrorType \in ErrorTypes
  /\ attempts = 0 /\ invocations = 0 /\ history = <<>>
  /\ retryPc = "loop" /\ retryResult = NotRun
  /\ ValidateIdle /\ TimeoutIdle /\ ClientIdle
  /\ BuilderIdle /\ NodeFlowIdle /\ LoginIdle

\* the loop condition holds: try { return await action() ...
RetryInvoke ==
  /\ retryPc = "loop"
  /\ RetryLoopCondition(attempts, retries)
  /\ invocations' = invocations + 1
  /\ retryPc' = "await"
  /\ UNCHANGED <<retries, retryErrorType, attempts, history, retryResult>>

\* the awaited action settles with outcome o. Resolved: return its value.
\* Rejected: catch (error) { attempts++; if (attempts >= retries)
\* handleError(error, errorMessage, errorType) } and the loop goes on.
RetrySettle(o) ==
  /\ retryPc = "await"
  /\ history' = Append(history, o)
  /\ IF o.tag = "ok"
       THEN /\ retryResult' = o
            /\ retryPc' = "done"
            /\ attempts' = attempts
       ELSE /\ attempts' = attempts + 1
            /\ IF RetryGivesUp(attempts + 1, retries)
                 THEN /\ retryResult' = Thrown(handleError(o.err, retryErrorType))
                      /\ retryPc' = "done"
                 ELSE /\ retryResult' = retryResult
                      /\ retryPc' = "loop"
  /\ UNCHANGED <<retries, retryErrorType, invocations>>

RetryInvokesAction ==
  /\ RetryInvoke
  /\ UNCHANGED <<validateVars, timeoutVars, clientVars>>
  /\ UNCHANGED <<builderVars, uiVars>>

RetryActionResolves ==
  /\ \E v \in ActionValues : RetrySettle(Returned(v))
  /\ UNCHANGED <<validateVars, timeoutVars, clientVars>>
  /\ UNCHANGED <<builderVars, uiVars>>

RetryActionRejects ==
  /\ \E e \in ActionErrors : RetrySettle(Thrown(e))
  /\ UNCHANGED <<validateVars, timeoutVars, clientVars>>
  /\ UNCHANGED <<builderVars, uiVars>>

\* the loop condition fails: handleError(new Error('All retries failed'), ...)
RetryFallsThrough ==
  /\ retryPc = "loop"
  /\ ~RetryLoopCondition(attempts, retries)
  /\ retryResult' =
       Thrown(handleError(NewError(<<"All retries failed">>), retryErrorType))
  /\ retryPc' = "done"
  /\ UNCHANGED <<retries, retryErrorType, attempts, invocations, history,
                 validateVars, timeoutVars, clientVars>>
  /\ UNCHANGED <<builderVars, uiVars>>

RetryNext ==
  \/ RetryInvokesAction
  \/ RetryActionResolves
  \/ RetryActionRejects
  \/ RetryFallsThrough

SpecRetry == RetryInit /\ [][RetryNext]_vars

(***************************************************************************)
(* apiRequestWithTimeout (utils/api-utils.ts), around an arbitrary action. *)
(***************************************************************************)
\* reject(new Error('API request timed out'))
TimerRejectionContextMessage == NewError(<<"Failed to execute API request">>)

TimerRejection == NewError(<<"API request timed out">>)

\* Promise.race: the first promise to settle settles the race; a promise
\* that is settled stays as it is
RaceSettleLast(r, outcome) == outcome

RaceSettle(r, outcome) == IF r = Pending THEN outcome ELSE r

\* how apiRequestWithTimeout ends once the race has settled with r:
\* return result, or catch (error) { handleError(error, ...) }
TimeoutOutcome(r, errorType) ==
  IF r.tag = "ok" THEN r ELSE Thrown(handleError(r.err, errorType))

TimeoutInit ==
  /\ timeoutErrorType \in ErrorTypes
  /\ racePc = "start"
  /\ actionState = NotRun /\ timerState = "idle" /\ race = Pending
  /\ settleOrder = <<>> /\ timeoutResult = NotRun
  /\ ValidateIdle /\ RetryIdle /\ ClientIdle
  /\ BuilderIdle /\ NodeFlowIdle /\ LoginIdle

\* Promise.race([action(), new Promise(... setTimeout(..., timeout))])
TimeoutStartsRace ==
  /\ racePc = "start"
  /\ actionState' = Pending
  /\ timerState' = "armed"
  /\ racePc' = "await"
  /\ UNCHANGED <<timeoutErrorType, race, settleOrder, timeoutResult,
                 validateVars, retryVars, clientVars>>
  /\ UNCHANGED <<builderVars, uiVars>>

\* the promise of action() resolves, whether or not the race is still open
ActionResolves ==
  /\ actionState = Pending
  /\ \E v \in ActionValues :
       /\ actionState' = Returned(v)
       /\ race' = RaceSettle(race, Returned(v))
  /\ settleOrder' = Append(settleOrder, "action")
  /\ UNCHANGED <<timeoutErrorType, racePc, timerState, timeoutResult,
                 validateVars, retryVars, clientVars>>
  /\ UNCHANGED <<builderVars, uiVars>>

\* the promise of action() rejects, whether or not the race is still open
ActionRejects ==
  /\ actionState = Pending
  /\ \E e \in ActionErrors :
       /\ actionState' = Thrown(e)
       /\ race' = RaceSettle(race, Thrown(e))
  /\ settleOrder' = Append(settleOrder, "action")
  /\ UNCHANGED <<timeoutErrorType, racePc, timerState, timeoutResult,
                 validateVars, retryVars, clientVars>>
  /\ UNCHANGED <<builderVars, uiVars>>

\* the timeout elapses: the setTimeout callback rejects the timer promise
TimerFires ==
  /\ timerState = "armed"
  /\ timerState' = "fired"
  /\ race' = RaceSettle(race, Thrown(TimerRejection))
  /\ settleOrder' = Append(settleOrder, "timer")
  /\ UNCHANGED <<timeoutErrorType, racePc, actionState, timeoutResult,
                 validateVars, retryVars, clientVars>>
  /\ UNCHANGED <<builderVars, uiVars>>

\* the await ends with a value: return result
TimeoutReturns ==
  /\ racePc = "await"
  /\ race.tag = "ok"
  /\ timeoutResult' = TimeoutOutcome(race, timeoutErrorType)
  /\ racePc' = "done"
  /\ UNCHANGED <<timeoutErrorType, actionState, timerState, race, settleOrder,
                 validateVars, retryVars, clientVars>>
  /\ UNCHANGED <<builderVars, uiVars>>

\* the await ends with a rejection: catch (error) { handleError(error, ...) }
TimeoutCatches ==
  /\ racePc = "await"
  /\ race.tag = "err"
  /\ timeoutResult' = TimeoutOutcome(race, timeoutErrorType)
  /\ racePc' = "done"
  /\ UNCHANGED <<timeoutErrorType, actionState, timerState, race, settleOrder,
                 validateVars, retryVars, clientVars>>
  /\ UNCHANGED <<builderVars, uiVars>>

TimeoutNext ==
  \/ TimeoutStartsRace
  \/ ActionResolves
  \/ ActionRejects
  \/ TimerFires
  \/ TimeoutReturns
  \/ TimeoutCatches

SpecTimeout == TimeoutInit /\ [][TimeoutNext]_vars

(***************************************************************************)
(* RpcFactory (utils/rpc-factory.ts): the Transport.                       *)
(***************************************************************************)
\* what the endpoint does with one HTTP POST: the HTTP layer fails, or a
\* body arrives with its error and result members
HttpFailure(m) == [k |-> "failure", message |-> m]
Body(e, r) == [k |-> "body", error |-> e, result |-> r]
NoAnswer == [k |-> "none"]

\* createRequest: axios.post throws, or the body has a truthy error member
\* (throw new Error(`RPC Error: ${response.data.error.message}`)), or the
\* body is returned
createRequestPrefersResult(answer) ==
  IF answer.k = "failure" THEN Thrown(NewError(answer.message))
  ELSE IF Truthy(answer.error) /\ ~Truthy(answer.result)
    THEN Thrown(NewError(<<"RPC Error: ">> \o answer.error.message))
  ELSE Returned(answer)

createRequest(answer) ==
  IF answer.k = "failure" THEN Thrown(NewError(answer.message))
  ELSE IF Truthy(answer.error)
    THEN Thrown(NewError(<<"RPC Error: ">> \o answer.error.message))
  ELSE Returned(answer)

\* callRpcMethod: return response.result
callRpcMethod(answer) ==
  LET r == createRequest(answer) IN
    IF r.tag = "ok" THEN Returned(r.value.result) ELSE r

(***************************************************************************)
(* RpcAPIClient (clients/rpc-api-client.ts): the operations that send a    *)
(* request, each retryApiRequest(() => apiRequestWithTimeout(() =>         *)
(* RpcFactory.callRpcMethod(...)), 2) followed by validateApiResponse, and *)
(* fetchTransactionHash, which wraps a local action the same way.          *)
(***************************************************************************)
NetworkOperations ==
  {"fetchBlockNumber", "fetchBlockDetails", "fetchTransactionDetails"}

Operations == NetworkOperations \cup {"fetchTransactionHash"}

MethodOf(op) ==
  CASE op = "fetchBlockNumber" -> "eth_blockNumber"
    [] op = "fetchBlockDetails" -> "eth_getBlockByNumber"
    [] op = "fetchTransactionDetails" -> "eth_getTransactionByHash"

\* the params array of the request: [], [blockNumber, false], [transactionHash]
ParamsOfWithoutFlag(op, arg) ==
  CASE op = "fetchBlockNumber" -> <<>>
    [] op = "fetchBlockDetails" -> <<arg>>
    [] op = "fetchTransactionDetails" -> <<arg>>

ParamsOf(op, arg) ==
  CASE op = "fetchBlockNumber" -> <<>>
    [] op = "fetchBlockDetails" -> <<arg, FALSE>>
    [] op = "fetchTransactionDetails" -> <<arg>>

\* the retries argument the client passes to retryApiRequest
ClientRetries == 2

Array(items) == [t |-> "array", items |-> items]

Block(n, h, txs) ==
  [Payload(Undefined, n, h, Undefined, Undefined, Undefined)
     EXCEPT !.transactions = txs]

Transaction(h, ti, f, to) == Payload(Undefined, Undefined, h, ti, f, to)

HexNumber == Str(<<"0", "x", "a">>)

\* the result members the endpoint may send, per operation
Results(op) ==
  CASE op = "fetchBlockNumber" ->
         {Undefined, Null, Str(<<>>), HexNumber, Str(<<"0", "x", "F">>),
          Str(<<"0", "x", "g">>)}
    [] op = "fetchBlockDetails" ->
         {Null,
          Block(HexNumber, ValidHash, Array(<<OtherValidHash>>)),
          Block(HexNumber, ValidHash, Array(<<OtherValidHash, ValidHash>>)),
          Block(HexNumber, ValidHash, Array(<<Str(<<"0", "x", "a">>)>>)),
          Block(HexNumber, ValidHash, Array(<<>>)),
          Block(HexNumber, ValidHash, Undefined),
          Block(HexNumber, Undefined, Array(<<OtherValidHash>>)),
          Block(HexNumber, Str(<<"0", "x", "a">>), Array(<<>>)),
          Block(Str(<<>>), ValidHash, Array(<<>>))}
    [] op = "fetchTransactionDetails" ->
         {Null,
          Transaction(OtherValidHash, HexNumber, ValidAddress, ValidAddress),
          Transaction(OtherValidHash, HexNumber, ValidAddress, Null),
          Transaction(OtherValidHash, HexNumber, Str(<<"0", "x">>), Null),
          Transaction(OtherValidHash, Str(<<"a">>), ValidAddress, ValidAddress)}

\* a result that passes every test of the operation
GoodResult(op) ==
  CASE op = "fetchBlockNumber" -> HexNumber
    [] op = "fetchBlockDetails" ->
         Block(HexNumber, ValidHash, Array(<<OtherValidHash>>))
    [] op = "fetchTransactionDetails" ->
         Transaction(OtherValidHash, HexNumber, ValidAddress, ValidAddress)

\* the answers of the endpoint: an HTTP failure, a body with a populated
\* error, a body with error and result both populated, a body with a result
Answers(op) ==
  {HttpFailure(<<"connect ECONNREFUSED">>),
   Body(ErrorField(<<"execution reverted">>), Undefined),
   Body(ErrorField(<<"rate limit", " exceeded">>), GoodResult(op))}
  \cup {Body(Undefined, r) : r \in Results(op)}

\* the arguments the operations are called with; fetchTransactionHash takes
\* a block details value: nothing, or a block whose transactions member is
\* missing, empty, or a list whose first element is an empty string or not
SomeBlockDetails ==
  {Undefined, Null,
   Block(HexNumber, ValidHash, Undefined),
   Block(HexNumber, ValidHash, Array(<<>>)),
   Block(HexNumber, ValidHash, Array(<<Str(<<>>)>>)),
   Block(HexNumber, ValidHash, Array(<<Str(<<"0", "x", "a">>)>>)),
   Block(HexNumber, ValidHash, Array(<<OtherValidHash>>)),
   Block(HexNumber, ValidHash, Array(<<OtherValidHash, ValidHash>>)),
   Block(HexNumber, ValidHash, Array(<<Str(<<"0", "x", "a">>), ValidHash>>))}

Arguments(op) ==
  CASE op = "fetchBlockNumber" -> {Undefined}
    [] op = "fetchBlockDetails" -> {HexNumber}
    [] op = "fetchTransactionHash" -> SomeBlockDetails
    [] op = "fetchTransactionDetails" -> {OtherValidHash}

\* fetchTransactionHash: !blockDetails || !blockDetails.transactions ||
\* blockDetails.transactions.length === 0
TransactionsUnavailableUnlessEmpty(details) ==
  IF ~Truthy(details) THEN TRUE
  ELSE ~Truthy(details.transactions)

TransactionsUnavailable(details) ==
  IF ~Truthy(details) THEN TRUE
  ELSE IF ~Truthy(details.transactions) THEN TRUE
  ELSE Len(details.transactions.items) = 0

\* blockDetails.transactions[0]: undefined when the list is empty
FirstTransactionIsLast(details) ==
  IF Len(details.transactions.items) = 0 THEN Undefined
  ELSE details.transactions.items[Len(details.transactions.items)]

FirstTransaction(details) ==
  IF Len(details.transactions.items) = 0 THEN Undefined
  ELSE details.transactions.items[1]

\* the payload the operation hands to validateApiResponse
ValidatedPayload(op, result) ==
  CASE op = "fetchBlockNumber" ->
         Payload(Undefined, result, Undefined, Undefined, Undefined, Undefined)
    [] op = "fetchTransactionHash" ->
         Payload(Undefined, Undefined, result, Undefined, Undefined, Undefined)
    [] OTHER -> result

\* the endpoints an RpcAPIClient is constructed for
NodeUrls == {"http://site1:8545", "http://site2:8545"}

\* constructor(nodeUrl) { this.nodeUrl = nodeUrl }, and one operation is called
ClientInit ==
  /\ nodeUrl \in NodeUrls /\ previous = "none"
  /\ operation \in Operations
  /\ argument \in Arguments(operation)
  /\ requests = <<>> /\ clientPc = "call" /\ clientResult = NotRun
  /\ retries = ClientRetries /\ retryErrorType = "RPC"
  /\ attempts = 0 /\ invocations = 0 /\ history = <<>>
  /\ retryPc = "loop" /\ retryResult = NotRun
  /\ ValidateIdle /\ TimeoutIdle
  /\ BuilderIdle /\ NodeFlowIdle /\ LoginIdle

\* fetchTransactionHash: the guard at the top of the operation throws a
\* plain Error before retryApiRequest is called
ClientRejectsArgument ==
  /\ clientPc = "call"
  /\ operation = "fetchTransactionHash"
  /\ TransactionsUnavailable(argument)
  /\ clientResult' =
       Thrown(NewError(<<"Block details or transactions are not available">>))
  /\ clientPc' = "done"
  /\ UNCHANGED <<nodeUrl, previous, operation, argument, requests,
                 validateVars, retryVars, timeoutVars>>
  /\ UNCHANGED <<builderVars, uiVars>>

\* retryApiRequest invokes its action: apiRequestWithTimeout calls
\* callRpcMethod, which posts one request, and arms a timer of its own
ClientSendsRequest ==
  /\ clientPc = "call"
  /\ operation \in NetworkOperations
  /\ RetryInvoke
  /\ requests' = Append(requests,
       [nodeUrl |-> nodeUrl, method |-> MethodOf(operation),
        params |-> ParamsOf(operation, argument), answer |-> NoAnswer,
        transport |-> Pending,
        timerState |-> "armed", race |-> Pending, first |-> "none"])
  /\ UNCHANGED <<nodeUrl, previous, operation, argument, clientPc,
                 clientResult, validateVars, timeoutVars>>
  /\ UNCHANGED <<builderVars, uiVars>>

\* fetchTransactionHash: retryApiRequest invokes its action, and
\* apiRequestWithTimeout races async () => blockDetails.transactions[0],
\* a promise that is resolved when it is created, against a timer: the race
\* settles with that value before any timer callback can run
ClientRunsLocalAction ==
  /\ clientPc = "call"
  /\ operation = "fetchTransactionHash"
  /\ ~TransactionsUnavailable(argument)
  /\ RetryInvoke
  /\ requests' = Append(requests,
       [nodeUrl |-> "none", method |-> "none", params |-> <<>>,
        answer |-> NoAnswer,
        transport |-> Returned(FirstTransaction(argument)),
        timerState |-> "armed",
        race |-> RaceSettle(Pending, Returned(FirstTransaction(argument))),
        first |-> "transport"])
  /\ UNCHANGED <<nodeUrl, previous, operation, argument, clientPc,
                 clientResult, validateVars, timeoutVars>>
  /\ UNCHANGED <<builderVars, uiVars>>

\* request i settles as o ("transport") or its timer fires ("timer")
SettleRequest(q, who, o) ==
  [q EXCEPT !.race = RaceSettle(q.race, o),
            !.first = IF q.first = "none" THEN who ELSE q.first]

\* the endpoint answers request i, whether or not anything still awaits it
EndpointAnswers ==
  /\ \E i \in 1..Len(requests) :
       /\ requests[i].transport = Pending
       /\ \E a \in Answers(operation) :
            requests' = [requests EXCEPT ![i] =
              [SettleRequest(requests[i], "transport", callRpcMethod(a))
                 EXCEPT !.transport = callRpcMethod(a), !.answer = a]]
  /\ UNCHANGED <<nodeUrl, previous, operation, argument, clientPc,
                 clientResult, validateVars, retryVars, timeoutVars>>
  /\ UNCHANGED <<builderVars, uiVars>>

\* the timer of request i fires
DeadlineExpires ==
  /\ \E i \in 1..Len(requests) :
       /\ requests[i].timerState = "armed"
       /\ requests' = [requests EXCEPT ![i] =
            [SettleRequest(requests[i], "timer", Thrown(TimerRejection))
               EXCEPT !.timerState = "fired"]]
  /\ UNCHANGED <<nodeUrl, previous, operation, argument, clientPc,
                 clientResult, validateVars, retryVars, timeoutVars>>
  /\ UNCHANGED <<builderVars, uiVars>>

\* the race of the current attempt has settled: apiRequestWithTimeout ends
\* and the await of retryApiRequest resumes
AttemptSettles ==
  /\ clientPc = "call"
  /\ retryPc = "await"
  /\ requests[Len(requests)].race # Pending
  /\ RetrySettle(TimeoutOutcome(requests[Len(requests)].race, "RPC"))
  /\ UNCHANGED <<validateVars, timeoutVars, clientVars>>
  /\ UNCHANGED <<builderVars, uiVars>>

\* retryApiRequest returned: validateApiResponse(..., ErrorType.RPC), then
\* return the value
ClientValidates ==
  /\ clientPc = "call"
  /\ retryPc = "done"
  /\ retryResult.tag = "ok"
  /\ response' = ValidatedPayload(operation, retryResult.value)
  /\ validation' = validateApiResponse(response', "RPC")
  /\ clientResult' = IF validation'.tag = "ok" THEN retryResult ELSE validation'
  /\ clientPc' = "done"
  /\ UNCHANGED <<nodeUrl, previous, operation, argument, requests,
                 retryVars, timeoutVars>>
  /\ UNCHANGED <<builderVars, uiVars>>

\* retryApiRequest threw: the operation rejects with that error
ClientFails ==
  /\ clientPc = "call"
  /\ retryPc = "done"
  /\ retryResult.tag = "err"
  /\ clientResult' = retryResult
  /\ clientPc' = "done"
  /\ UNCHANGED <<nodeUrl, previous, operation, argument, requests, validateVars,
                 retryVars, timeoutVars>>
  /\ UNCHANGED <<builderVars, uiVars>>

\* the operation has ended and an operation of the same instance is called:
\* the parameters and locals of the new call start afresh, the instance is
\* the one that was constructed
ClientCallsAgainKeepsAttempts ==
  /\ clientPc = "done"
  /\ previous' = clientResult.tag
  /\ operation' \in Operations
  /\ argument' \in Arguments(operation')
  /\ requests' = <<>> /\ clientPc' = "call" /\ clientResult' = NotRun
  /\ invocations' = 0 /\ history' = <<>>
  /\ retryPc' = "loop" /\ retryResult' = NotRun
  /\ response' = Undefined /\ validation' = NotRun
  /\ UNCHANGED <<nodeUrl, retries, retryErrorType, attempts, timeoutVars>>
  /\ UNCHANGED <<builderVars, uiVars>>

ClientCallsAgain ==
  /\ clientPc = "done"
  /\ previous' = clientResult.tag
  /\ operation' \in Operations
  /\ argument' \in Arguments(operation')
  /\ requests' = <<>> /\ clientPc' = "call" /\ clientResult' = NotRun
  /\ attempts' = 0 /\ invocations' = 0 /\ history' = <<>>
  /\ retryPc' = "loop" /\ retryResult' = NotRun
  /\ response' = Undefined /\ validation' = NotRun
  /\ UNCHANGED <<nodeUrl, retries, retryErrorType, timeoutVars>>
  /\ UNCHANGED <<builderVars, uiVars>>

ClientNext ==
  \/ ClientRejectsArgument
  \/ ClientSendsRequest
  \/ ClientRunsLocalAction
  \/ EndpointAnswers
  \/ DeadlineExpires
  \/ AttemptSettles
  \/ ClientValidates
  \/ ClientFails

SpecClient == ClientInit /\ [][ClientNext]_vars

\* one instance, one operation called after the other
ClientCallsNext == ClientNext \/ ClientCallsAgain

SpecClientCalls == ClientInit /\ [][ClientCallsNext]_vars

(***************************************************************************)
(* RpcAPIClient, one operation as a whole: how it ends and what it sends,  *)
(* given how the successive invocations of its retried action end. The     *)
(* builder below calls the operations through these operators.             *)
(***************************************************************************)
\* how one invocation of the retried action can end: the local action of
\* fetchTransactionHash wins its race; a Transport request ends as one of
\* the answers does, or its timer fires first
AttemptOutcomes(op, arg, answers) ==
  IF op = "fetchTransactionHash"
    THEN {TimeoutOutcome(
            RaceSettle(Pending, Returned(FirstTransaction(arg))), "RPC")}
    ELSE {TimeoutOutcome(callRpcMethod(a), "RPC") : a \in answers}
         \cup {TimeoutOutcome(Thrown(TimerRejection), "RPC")}

\* the runs of retryApiRequest(action, n): every invocation but the last
\* fails, and the last one is the n-th or succeeds
AttemptRuns(outcomes, n) ==
  {run \in UNION {[1..k -> outcomes] : k \in 1..n} :
     /\ \A i \in 1..(Len(run) - 1) : run[i].tag = "err"
     /\ Len(run) < n => run[Len(run)].tag = "ok"}

\* retryApiRequest over a run, from the value a of attempts
RECURSIVE RetryOutcome(_, _, _, _)
RetryOutcome(run, a, n, errorType) ==
  IF ~RetryLoopCondition(a, n)
    THEN Thrown(handleError(NewError(<<"All retries failed">>), errorType))
  ELSE IF run[a + 1].tag = "ok" THEN run[a + 1]
  ELSE IF RetryGivesUp(a + 1, n)
    THEN Thrown(handleError(run[a + 1].err, errorType))
  ELSE RetryOutcome(run, a + 1, n, errorType)

\* the operation: the guard of fetchTransactionHash, retryApiRequest,
\* validateApiResponse, return
ClientOutcome(op, arg, run) ==
  IF op = "fetchTransactionHash" /\ TransactionsUnavailable(arg)
    THEN Thrown(NewError(<<"Block details or transactions are not available">>))
  ELSE LET r == RetryOutcome(run, 0, ClientRetries, "RPC")
           v == validateApiResponse(ValidatedPayload(op, r.value), "RPC")
       IN  IF r.tag = "err" THEN r
           ELSE IF v.tag = "ok" THEN r ELSE v

\* the requests the operation posts: one per invocation of callRpcMethod
ClientRequests(op, arg, run) ==
  IF op \in NetworkOperations
    THEN [i \in 1..Len(run) |->
            [method |-> MethodOf(op), params |-> ParamsOf(op, arg)]]
    ELSE <<>>

(***************************************************************************)
(* RpcTestScenarioBuilder (builders/rpc-test-scenario-builder.ts). Stage   *)
(* calls are awaited one after the other; fetchTransactionHash is a loop   *)
(* with a delay, the other stages are one call of a client operation.      *)
(***************************************************************************)
MAX_RETRIES == 3
RETRY_DELAY == 2000

\* return this
This == [t |-> "builder"]

\* if (!this.blockNumber), if (!this.transactionHash)
MissingOnlyIfUndefined(v) == v = Undefined

BlockNumberMissing(v) == ~Truthy(v)

TransactionHashMissing(v) == ~Truthy(v)

\* !this.blockDetails || !this.blockDetails.transactions.length: reading
\* length throws a TypeError when transactions is not there
LengthThrows(details) ==
  IF ~Truthy(details) THEN FALSE
  ELSE details.transactions.t \in {"undefined", "null"}

LengthTypeError ==
  [kind |-> "TypeError",
   msg |-> <<"Cannot read properties of undefined (reading 'length')">>]

PollCondition(details) ==
  IF ~Truthy(details) THEN TRUE
  ELSE Len(details.transactions.items) = 0

\* if (retries >= MAX_RETRIES)
PollExhaustedLate(r) == r > MAX_RETRIES

PollExhausted(r) == r >= MAX_RETRIES

\* the transaction lists the node may hold for the block
NodeTransactionLists ==
  {Array(<<>>), Array(<<OtherValidHash>>),
   Array(<<OtherValidHash, ValidHash>>), Array(<<Str(<<"0", "x", "a">>)>>)}

\* the answers the node gives at this moment: a block that is sent with a
\* transactions list carries the list the node holds now
NodeAnswers(op) ==
  {a \in Answers(op) :
     (/\ a.k = "body" /\ a.result.t = "object"
      /\ a.result.transactions.t = "array") =>
       a.result.transactions = nodeTransactions}

NodeRuns(op, arg) ==
  AttemptRuns(AttemptOutcomes(op, arg, NodeAnswers(op)), ClientRetries)

\* what a stage leaves alone besides the builder's own variables
outsideBuilder ==
  <<validateVars, retryVars, timeoutVars, clientVars, uiVars>>

BuilderInit ==
  /\ blockNumber = Null /\ blockDetails = Null /\ transactionHash = Null
  /\ stage = "none" /\ builderPc = "idle" /\ pollRetries = 0 /\ waited = 0
  /\ stageResult = NotRun /\ sent = <<>>
  /\ nodeTransactions \in NodeTransactionLists
  /\ observed = <<>> /\ supplied = <<>>
  /\ ValidateIdle /\ RetryIdle /\ TimeoutIdle /\ ClientIdle
  /\ NodeFlowIdle /\ LoginIdle

\* fetchBlockNumber(): this.blockNumber = await apiClient.fetchBlockNumber()
StageFetchBlockNumberClearsOnFailure(run) ==
  /\ builderPc = "idle"
  /\ stage' = "fetchBlockNumber"
  /\ LET r == ClientOutcome("fetchBlockNumber", Undefined, run) IN
       /\ blockNumber' = IF r.tag = "ok" THEN r.value ELSE Undefined
       /\ stageResult' = IF r.tag = "ok" THEN Returned(This) ELSE r
  /\ sent' = ClientRequests("fetchBlockNumber", Undefined, run)
  /\ UNCHANGED <<blockDetails, transactionHash, builderPc, pollRetries,
                 waited, observed>>

StageFetchBlockNumber(run) ==
  /\ builderPc = "idle"
  /\ stage' = "fetchBlockNumber"
  /\ LET r == ClientOutcome("fetchBlockNumber", Undefined, run) IN
       /\ blockNumber' = IF r.tag = "ok" THEN r.value ELSE blockNumber
       /\ stageResult' = IF r.tag = "ok" THEN Returned(This) ELSE r
  /\ sent' = ClientRequests("fetchBlockNumber", Undefined, run)
  /\ UNCHANGED <<blockDetails, transactionHash, builderPc, pollRetries,
                 waited, observed>>

\* fetchBlockDetails(): if (!this.blockNumber) throw new Error(...)
StageBlockNumberMissing ==
  /\ builderPc = "idle"
  /\ BlockNumberMissing(blockNumber)
  /\ stage' = "fetchBlockDetails"
  /\ stageResult' = Thrown(NewError(<<"Block number is not available">>))
  /\ sent' = <<>>
  /\ UNCHANGED <<builderFields, builderPc, pollRetries, waited, observed>>

\* this.blockDetails = await apiClient.fetchBlockDetails(this.blockNumber)
StageFetchBlockDetails(run) ==
  /\ builderPc = "idle"
  /\ ~BlockNumberMissing(blockNumber)
  /\ stage' = "fetchBlockDetails"
  /\ LET r == ClientOutcome("fetchBlockDetails", blockNumber, run) IN
       /\ blockDetails' = IF r.tag = "ok" THEN r.value ELSE blockDetails
       /\ stageResult' = IF r.tag = "ok" THEN Returned(This) ELSE r
  /\ sent' = ClientRequests("fetchBlockDetails", blockNumber, run)
  /\ UNCHANGED <<blockNumber, transactionHash, builderPc, pollRetries,
                 waited, observed>>

\* fetchTransactionDetails(): if (!this.transactionHash) throw new Error(...)
StageTransactionHashMissing ==
  /\ builderPc = "idle"
  /\ TransactionHashMissing(transactionHash)
  /\ stage' = "fetchTransactionDetails"
  /\ stageResult' = Thrown(NewError(<<"Transaction hash is not available">>))
  /\ sent' = <<>>
  /\ UNCHANGED <<builderFields, builderPc, pollRetries, waited, observed>>

\* return await apiClient.fetchTransactionDetails(this.transactionHash)
StageFetchTransactionDetailsKeepsHash(run) ==
  /\ builderPc = "idle"
  /\ ~TransactionHashMissing(transactionHash)
  /\ stage' = "fetchTransactionDetails"
  /\ LET r == ClientOutcome("fetchTransactionDetails", transactionHash, run) IN
       /\ stageResult' = r
       /\ transactionHash' = IF r.tag = "ok" THEN r.value.hash
                                             ELSE transactionHash
  /\ sent' = ClientRequests("fetchTransactionDetails", transactionHash, run)
  /\ UNCHANGED <<blockNumber, blockDetails, builderPc, pollRetries, waited,
                 observed>>

StageFetchTransactionDetails(run) ==
  /\ builderPc = "idle"
  /\ ~TransactionHashMissing(transactionHash)
  /\ stage' = "fetchTransactionDetails"
  /\ stageResult' =
       ClientOutcome("fetchTransactionDetails", transactionHash, run)
  /\ sent' = ClientRequests("fetchTransactionDetails", transactionHash, run)
  /\ UNCHANGED <<builderFields, builderPc, pollRetries, waited, observed>>

\* fetchTransactionHash() is called: let retries = 0
StageStartsPolling ==
  /\ builderPc = "idle"
  /\ stage' = "fetchTransactionHash"
  /\ builderPc' = "poll"
  /\ pollRetries' = 0 /\ waited' = 0 /\ observed' = <<>>
  /\ stageResult' = Pending /\ sent' = <<>>
  /\ UNCHANGED builderFields

\* the loop condition reads length of a transactions member that is not
\* there: the call ends with a TypeError
StagePollCrashes ==
  /\ builderPc = "poll"
  /\ LengthThrows(blockDetails)
  /\ observed' = Append(observed, nodeTransactions)
  /\ stageResult' = Thrown(LengthTypeError)
  /\ builderPc' = "idle"
  /\ UNCHANGED <<builderFields, stage, pollRetries, waited, sent>>

\* the loop condition holds and retries < MAX_RETRIES: the delay starts
StagePollWaits ==
  /\ builderPc = "poll"
  /\ ~LengthThrows(blockDetails)
  /\ PollCondition(blockDetails)
  /\ ~PollExhausted(pollRetries)
  /\ observed' = Append(observed, nodeTransactions)
  /\ builderPc' = "delay"
  /\ UNCHANGED <<builderFields, stage, pollRetries, waited, stageResult, sent>>

\* await new Promise((resolve) => setTimeout(resolve, RETRY_DELAY)); retries++
StageDelayElapses ==
  /\ builderPc = "delay"
  /\ waited' = waited + RETRY_DELAY
  /\ pollRetries' = pollRetries + 1
  /\ builderPc' = "poll"
  /\ UNCHANGED <<builderFields, stage, stageResult, sent, observed>>

\* the loop condition holds and retries >= MAX_RETRIES: throw new Error(...)
StagePollGivesUp ==
  /\ builderPc = "poll"
  /\ ~LengthThrows(blockDetails)
  /\ PollCondition(blockDetails)
  /\ PollExhausted(pollRetries)
  /\ observed' = Append(observed, nodeTransactions)
  /\ stageResult' = Thrown(NewError(
       <<"Block details or transactions are not available after maximum retries">>))
  /\ builderPc' = "idle"
  /\ UNCHANGED <<builderFields, stage, pollRetries, waited, sent>>

\* the loop condition fails: this.transactionHash =
\* await apiClient.fetchTransactionHash(this.blockDetails)
StagePollFindsTransactions(run) ==
  /\ builderPc = "poll"
  /\ ~LengthThrows(blockDetails)
  /\ ~PollCondition(blockDetails)
  /\ observed' = Append(observed, nodeTransactions)
  /\ LET r == ClientOutcome("fetchTransactionHash", blockDetails, run) IN
       /\ transactionHash' = IF r.tag = "ok" THEN r.value ELSE transactionHash
       /\ stageResult' = IF r.tag = "ok" THEN Returned(This) ELSE r
  /\ sent' = ClientRequests("fetchTransactionHash", blockDetails, run)
  /\ builderPc' = "idle"
  /\ UNCHANGED <<blockNumber, blockDetails, stage, pollRetries, waited>>

BuilderFetchBlockNumber ==
  /\ \E run \in NodeRuns("fetchBlockNumber", Undefined) :
       StageFetchBlockNumber(run)
  /\ UNCHANGED <<nodeTransactions, supplied, outsideBuilder>>

BuilderRejectsFetchBlockDetails ==
  /\ StageBlockNumberMissing
  /\ UNCHANGED <<nodeTransactions, supplied, outsideBuilder>>

BuilderFetchBlockDetails ==
  /\ \E run \in NodeRuns("fetchBlockDetails", blockNumber) :
       StageFetchBlockDetails(run)
  /\ UNCHANGED <<nodeTransactions, supplied, outsideBuilder>>

BuilderCallsFetchTransactionHash ==
  /\ StageStartsPolling
  /\ UNCHANGED <<nodeTransactions, supplied, outsideBuilder>>

BuilderPollCrashes ==
  /\ StagePollCrashes
  /\ UNCHANGED <<nodeTransactions, supplied, outsideBuilder>>

BuilderPollWaits ==
  /\ StagePollWaits
  /\ UNCHANGED <<nodeTransactions, supplied, outsideBuilder>>

BuilderDelayElapses ==
  /\ StageDelayElapses
  /\ UNCHANGED <<nodeTransactions, supplied, outsideBuilder>>

BuilderPollGivesUp ==
  /\ StagePollGivesUp
  /\ UNCHANGED <<nodeTransactions, supplied, outsideBuilder>>

BuilderPollFindsTransactions ==
  /\ builderPc = "poll" /\ ~LengthThrows(blockDetails)
  /\ ~PollCondition(blockDetails)
  /\ \E run \in NodeRuns("fetchTransactionHash", blockDetails) :
       StagePollFindsTransactions(run)
  /\ UNCHANGED <<nodeTransactions, supplied, outsideBuilder>>

BuilderRejectsFetchTransactionDetails ==
  /\ StageTransactionHashMissing
  /\ UNCHANGED <<nodeTransactions, supplied, outsideBuilder>>

BuilderFetchTransactionDetails ==
  /\ \E run \in NodeRuns("fetchTransactionDetails", transactionHash) :
       StageFetchTransactionDetails(run)
  /\ UNCHANGED <<nodeTransactions, supplied, outsideBuilder>>

\* transactions propagate to the block the node holds
TransactionsArrive ==
  /\ nodeTransactions = Array(<<>>)
  /\ nodeTransactions' \in NodeTransactionLists \ {Array(<<>>)}
  /\ UNCHANGED <<builderFields, stage, builderPc, pollRetries, waited,
                 stageResult, sent, observed, supplied, outsideBuilder>>

BuilderNext ==
  \/ BuilderFetchBlockNumber
  \/ BuilderRejectsFetchBlockDetails
  \/ BuilderFetchBlockDetails
  \/ BuilderCallsFetchTransactionHash
  \/ BuilderPollCrashes
  \/ BuilderPollWaits
  \/ BuilderDelayElapses
  \/ BuilderPollGivesUp
  \/ BuilderPollFindsTransactions
  \/ BuilderRejectsFetchTransactionDetails
  \/ BuilderFetchTransactionDetails
  \/ TransactionsArrive

SpecBuilder == BuilderInit /\ [][BuilderNext]_vars

(***************************************************************************)
(* The end-to-end scenario (functional-tests/E2E): one builder, the four   *)
(* stages awaited in order, against a node that answers every request at   *)
(* once with well-formed data.                                             *)
(***************************************************************************)
WellFormedBlockNumbers == {HexNumber, Str(<<"0", "x", "F">>)}

WellFormedLists ==
  {Array(<<OtherValidHash>>), Array(<<OtherValidHash, ValidHash>>),
   Array(<<ValidHash, OtherValidHash>>)}

WellFormedBlocks ==
  {Block(n, h, nodeTransactions) :
     n \in WellFormedBlockNumbers, h \in {ValidHash, OtherValidHash}}

WellFormedTransactions ==
  {Transaction(h, ti, ValidAddress, ValidAddress) :
     h \in {ValidHash, OtherValidHash}, ti \in WellFormedBlockNumbers}

\* the request is answered by a body with this result before its timer fires
PromptRun(result) ==
  <<TimeoutOutcome(callRpcMethod(Body(Undefined, result)), "RPC")>>

ScenarioInit ==
  /\ blockNumber = Null /\ blockDetails = Null /\ transactionHash = Null
  /\ stage = "none" /\ builderPc = "idle" /\ pollRetries = 0 /\ waited = 0
  /\ stageResult = NotRun /\ sent = <<>>
  /\ nodeTransactions \in WellFormedLists
  /\ observed = <<>> /\ supplied = <<>>
  /\ ValidateIdle /\ RetryIdle /\ TimeoutIdle /\ ClientIdle
  /\ NodeFlowIdle /\ LoginIdle

\* await scenarioBuilder.fetchBlockNumber()
ScenarioFetchBlockNumber ==
  /\ stage = "none"
  /\ \E v \in WellFormedBlockNumbers :
       /\ StageFetchBlockNumber(PromptRun(v))
       /\ supplied' = Append(supplied, v)
  /\ UNCHANGED <<nodeTransactions, outsideBuilder>>

\* await scenarioBuilder.fetchBlockDetails()
ScenarioFetchBlockDetails ==
  /\ stage = "fetchBlockNumber" /\ stageResult.tag = "ok"
  /\ \E b \in WellFormedBlocks :
       /\ StageFetchBlockDetails(PromptRun(b))
       /\ supplied' = Append(supplied, b)
  /\ UNCHANGED <<nodeTransactions, outsideBuilder>>

\* await scenarioBuilder.fetchTransactionHash()
ScenarioCallsFetchTransactionHash ==
  /\ stage = "fetchBlockDetails" /\ stageResult.tag = "ok"
  /\ StageStartsPolling
  /\ UNCHANGED <<nodeTransactions, supplied, outsideBuilder>>

ScenarioPollFindsTransactions ==
  /\ stage = "fetchTransactionHash" /\ builderPc = "poll"
  /\ ~LengthThrows(blockDetails) /\ ~PollCondition(blockDetails)
  /\ \E run \in AttemptRuns(AttemptOutcomes("fetchTransactionHash",
                              blockDetails, {}), ClientRetries) :
       StagePollFindsTransactions(run)
  /\ UNCHANGED <<nodeTransactions, supplied, outsideBuilder>>

\* await scenarioBuilder.fetchTransactionDetails()
ScenarioFetchTransactionDetails ==
  /\ stage = "fetchTransactionHash" /\ stageResult.tag = "ok"
  /\ \E d \in WellFormedTransactions :
       /\ StageFetchTransactionDetails(PromptRun(d))
       /\ supplied' = Append(supplied, d)
  /\ UNCHANGED <<nodeTransactions, outsideBuilder>>

ScenarioNext ==
  \/ ScenarioFetchBlockNumber
  \/ ScenarioFetchBlockDetails
  \/ ScenarioCallsFetchTransactionHash
  \/ ScenarioPollFindsTransactions
  \/ ScenarioFetchTransactionDetails

SpecScenario == ScenarioInit /\ [][ScenarioNext]_vars

(***************************************************************************)
(* NodeFlow.copyNodeUrls (flows/node-flow.ts) over a node page whose two   *)
(* URL input fields hold urlFields. Every call of the page can reject; the *)
(* catch of copyNodeUrls logs and rethrows.                                *)
(***************************************************************************)
\* the errors a call of the page can reject with
PageErrors ==
  {NewError(<<"Timeout 30000ms exceeded">>),
   NewError(<<"Target page, context or browser has been closed">>)}

\* what copyNodeUrls leaves alone
outsideNodeFlow ==
  <<email, password, loginPc, isLoggedIn, submitClicks, checks, loginResult,
    validateVars, retryVars, timeoutVars, clientVars, builderVars>>

NodeFlowInit ==
  /\ flowNodeUrl = Null
  /\ urlFields \in
       {Str(<<>>), Str(<<"https://site1.example">>),
        Str(<<"https://site2.example">>)}
       \X {Str(<<>>), Str(<<"https://site1.example">>),
           Str(<<"https://site2.example">>)}
  /\ accordionOpen \in BOOLEAN
  /\ copyPc = "call"
  /\ site1Url = Undefined /\ site2Url = Undefined /\ copyResult = NotRun
  /\ LoginIdle
  /\ ValidateIdle /\ RetryIdle /\ TimeoutIdle /\ ClientIdle /\ BuilderIdle

\* if (this.nodeUrl) return { site1: this.nodeUrl, site2: this.nodeUrl }
CopyReturnsCached ==
  /\ copyPc = "call"
  /\ Truthy(flowNodeUrl)
  /\ copyResult' = Returned([site1 |-> flowNodeUrl, site2 |-> flowNodeUrl])
  /\ copyPc' = "done"
  /\ UNCHANGED <<flowNodeUrl, urlFields, accordionOpen, site1Url, site2Url,
                 outsideNodeFlow>>

\* isAccordionOpen, openAccordion if it is not, verifyNodeLoaded,
\* waitForLoadingToComplete
CopyPreparesPage ==
  /\ copyPc = "call"
  /\ ~Truthy(flowNodeUrl)
  /\ accordionOpen' = TRUE
  /\ copyPc' = "site1"
  /\ UNCHANGED <<flowNodeUrl, urlFields, site1Url, site2Url, copyResult,
                 outsideNodeFlow>>

\* clickCopyButton(0); const site1Url = await getCopiedUrl(0)
CopyReadsSite1 ==
  /\ copyPc = "site1"
  /\ site1Url' = urlFields[1]
  /\ copyPc' = "site2"
  /\ UNCHANGED <<flowNodeUrl, urlFields, accordionOpen, site2Url, copyResult,
                 outsideNodeFlow>>

\* clickCopyButton(1); const site2Url = await getCopiedUrl(1);
\* this.nodeUrl = site1Url; return { site1: site1Url, site2: site2Url }
CopyReadsSite2 ==
  /\ copyPc = "site2"
  /\ site2Url' = urlFields[2]
  /\ flowNodeUrl' = site1Url
  /\ copyResult' = Returned([site1 |-> site1Url, site2 |-> site2Url'])
  /\ copyPc' = "done"
  /\ UNCHANGED <<urlFields, accordionOpen, site1Url, outsideNodeFlow>>

\* an awaited call of the page rejects: catch (error) { ...; throw error }
CopyPageFails ==
  /\ copyPc \in {"call", "site1", "site2"}
  /\ ~Truthy(flowNodeUrl)
  /\ \E error \in PageErrors : copyResult' = Thrown(error)
  /\ copyPc' = "done"
  /\ UNCHANGED <<flowNodeUrl, urlFields, accordionOpen, site1Url, site2Url,
                 outsideNodeFlow>>

\* copyNodeUrls is called again on the same instance
CopyCalledAgain ==
  /\ copyPc = "done"
  /\ copyPc' = "call"
  /\ site1Url' = Undefined /\ site2Url' = Undefined /\ copyResult' = NotRun
  /\ UNCHANGED <<flowNodeUrl, urlFields, accordionOpen, outsideNodeFlow>>

NodeFlowNext ==
  \/ CopyReturnsCached
  \/ CopyPreparesPage
  \/ CopyReadsSite1
  \/ CopyReadsSite2
  \/ CopyPageFails
  \/ CopyCalledAgain

SpecNodeFlow == NodeFlowInit /\ [][NodeFlowNext]_vars

(***************************************************************************)
(* LoginFlow.performLogin (flows/login-flow.ts) over a login page whose    *)
(* isLoggedIn and isCaptchaPresent answer either way and whose calls can   *)
(* reject; performLogin has no catch.                                      *)
(***************************************************************************)
\* what performLogin leaves alone
outsideLogin ==
  <<flowNodeUrl, urlFields, accordionOpen, copyPc, site1Url, site2Url,
    copyResult, validateVars, retryVars, timeoutVars, clientVars, builderVars>>

\* if (isLoggedIn) { console.log('Login successful!') } else { throw ... }
LoginOutcomeIgnoresCheck(loggedIn) == Returned(Undefined)

LoginOutcome(loggedIn) ==
  IF loggedIn THEN Returned(Undefined)
  ELSE Thrown(NewError(
    <<"Login failed after CAPTCHA. Browser will remain open for debugging.">>))

LoginInit ==
  /\ email \in {Undefined, Str(<<>>), Str(<<"user@example.com">>),
                Str(<<"admin@example.com">>)}
  /\ password \in {Undefined, Str(<<>>), Str(<<"secret">>), Str(<<" ">>)}
  /\ loginPc = "call"
  /\ isLoggedIn = FALSE /\ submitClicks = 0 /\ checks = <<>>
  /\ loginResult = NotRun
  /\ NodeFlowIdle
  /\ ValidateIdle /\ RetryIdle /\ TimeoutIdle /\ ClientIdle /\ BuilderIdle

\* if (!email || !password) throw new Error('Email or password is empty')
LoginRejectsCredentials ==
  /\ loginPc = "call"
  /\ ~Truthy(email) \/ ~Truthy(password)
  /\ loginResult' = Thrown(NewError(<<"Email or password is empty">>))
  /\ loginPc' = "done"
  /\ UNCHANGED <<email, password, isLoggedIn, submitClicks, checks,
                 outsideLogin>>

\* navigate, acceptCookies, fillEmail, fillPassword, clickSubmitButton
LoginSubmitsForm ==
  /\ loginPc = "call"
  /\ Truthy(email) /\ Truthy(password)
  /\ submitClicks' = submitClicks + 1
  /\ loginPc' = "check"
  /\ UNCHANGED <<email, password, isLoggedIn, checks, loginResult,
                 outsideLogin>>

\* let isLoggedIn = await this.loginPage.isLoggedIn(false); if (!isLoggedIn)
LoginChecks ==
  /\ loginPc = "check"
  /\ \E answer \in BOOLEAN :
       /\ isLoggedIn' = answer
       /\ checks' = Append(checks, answer)
       /\ loginPc' = IF answer THEN "end" ELSE "captcha"
  /\ UNCHANGED <<email, password, submitClicks, loginResult, outsideLogin>>

\* const isCaptchaVisible = await isCaptchaPresent(); if (isCaptchaVisible)
LoginLooksForCaptcha ==
  /\ loginPc = "captcha"
  /\ \E isCaptchaVisible \in BOOLEAN :
       loginPc' = IF isCaptchaVisible THEN "pause" ELSE "end"
  /\ UNCHANGED <<email, password, isLoggedIn, submitClicks, checks,
                 loginResult, outsideLogin>>

\* await pauseForCaptcha(); isLoggedIn = await isLoggedIn(false);
\* if (!isLoggedIn)
LoginChecksAfterCaptcha ==
  /\ loginPc = "pause"
  /\ \E answer \in BOOLEAN :
       /\ isLoggedIn' = answer
       /\ checks' = Append(checks, answer)
       /\ loginPc' = IF answer THEN "end" ELSE "retry"
  /\ UNCHANGED <<email, password, submitClicks, loginResult, outsideLogin>>

\* await clickSubmitButton(); isLoggedIn = await isLoggedIn(true);
\* if (!isLoggedIn) throw new Error('Login failed after CAPTCHA resolution
\* and retry.')
LoginResubmits ==
  /\ loginPc = "retry"
  /\ submitClicks' = submitClicks + 1
  /\ \E answer \in BOOLEAN :
       /\ isLoggedIn' = answer
       /\ checks' = Append(checks, answer)
       /\ loginPc' = IF answer THEN "end" ELSE "done"
       /\ loginResult' =
            IF answer THEN loginResult
            ELSE Thrown(NewError(
                   <<"Login failed after CAPTCHA resolution and retry.">>))
  /\ UNCHANGED <<email, password, outsideLogin>>

\* the test of isLoggedIn that ends performLogin
LoginEnds ==
  /\ loginPc = "end"
  /\ loginResult' = LoginOutcome(isLoggedIn)
  /\ loginPc' = "done"
  /\ UNCHANGED <<email, password, isLoggedIn, submitClicks, checks,
                 outsideLogin>>

\* an awaited call of the login page rejects and performLogin rejects with it
LoginPageFails ==
  /\ loginPc \in {"check", "captcha", "pause", "retry"}
     \/ (loginPc = "call" /\ Truthy(email) /\ Truthy(password))
  /\ \E error \in PageErrors : loginResult' = Thrown(error)
  /\ loginPc' = "done"
  /\ UNCHANGED <<email, password, isLoggedIn, submitClicks, checks,
                 outsideLogin>>

LoginNext ==
  \/ LoginRejectsCredentials
  \/ LoginSubmitsForm
  \/ LoginChecks
  \/ LoginLooksForCaptcha
  \/ LoginChecksAfterCaptcha
  \/ LoginResubmits
  \/ LoginEnds
  \/ LoginPageFails

SpecLogin == LoginInit /\ [][LoginNext]_vars

(***************************************************************************)
(* Termination: an operation of the client, or the stages of a builder,    *)
(* with timers that fire and awaits that resume. Nothing is assumed of the *)
(* endpoint, which may leave every request unanswered, nor of the caller,  *)
(* who may call no further stage.                                          *)
(***************************************************************************)
TerminationNext ==
  \/ clientPc # "idle" /\ ClientNext
  \/ clientPc = "idle" /\ BuilderNext

\* setTimeout callbacks run once their delay has passed, and a settled
\* promise resumes the function that awaits it
TimersFireAndAwaitsResume ==
  /\ WF_vars(DeadlineExpires)
  /\ WF_vars(AttemptSettles)
  /\ WF_vars(ClientRejectsArgument)
  /\ WF_vars(ClientSendsRequest)
  /\ WF_vars(ClientRunsLocalAction)
  /\ WF_vars(ClientValidates)
  /\ WF_vars(ClientFails)
  /\ WF_vars(BuilderDelayElapses)
  /\ WF_vars(BuilderPollCrashes)
  /\ WF_vars(BuilderPollWaits)
  /\ WF_vars(BuilderPollGivesUp)
  /\ WF_vars(BuilderPollFindsTransactions)

SpecTermination ==
  /\ ClientInit \/ BuilderInit
  /\ [][TerminationNext]_vars
  /\ TimersFireAndAwaitsResume

(***************************************************************************)
(* Properties.                                                             *)
(***************************************************************************)
\* m occurs in msg as a run of consecutive fragments
Contains(msg, m) ==
  \E i \in 0..(Len(msg) - Len(m)) :
    \A j \in 1..Len(m) : msg[i + j] = m[j]

AllFailed == \A i \in 1..Len(history) : history[i].tag = "err"

\* C1: retryApiRequest returns the first success: the invocation that
\* resolves is the last one, the call ends with exactly its value after
\* exactly that many invocations, and the call never gives up while fewer
\* than retries invocations have failed.
C1_RetryReturnsFirstSuccess ==
  /\ \A i \in 1..Len(history) :
       history[i].tag = "ok" =>
         /\ i = Len(history)
         /\ i <= retries
         /\ invocations = i
         /\ retryPc = "done"
         /\ retryResult = history[i]
  /\ (retryPc = "done" /\ retryResult.tag = "err") => Len(history) >= retries

C1_Witness ==
  /\ retryPc = "done" /\ retries = 3
  /\ Len(history) = 3 /\ invocations = 3
  /\ history[1].tag = "err" /\ history[2].tag = "err"
  /\ retryResult = Returned("v2")

\* C2: when every invocation fails and retries >= 1, action is invoked
\* exactly retries times and the call throws an error of the class of the
\* requested category with the message of the last invocation's error.
C2_RetryExhaustedSurfacesLastError ==
  /\ retries >= 1 => invocations <= retries
  /\ (retryPc = "done" /\ retries >= 1 /\ AllFailed) =>
       /\ invocations = retries
       /\ Len(history) = retries
       /\ retryResult.tag = "err"
       /\ retryResult.err.kind = ErrorClassOf(retryErrorType)
       /\ InstanceOfError(history[retries].err) =>
            retryResult.err.msg = history[retries].err.msg

C2_Witness ==
  /\ retryPc = "done" /\ retries = 3 /\ retryErrorType = "RPC"
  /\ Len(history) = 3 /\ AllFailed /\ invocations = 3
  /\ history[3].err.msg # history[2].err.msg
  /\ history[3].err.msg # history[1].err.msg
  /\ retryResult = Thrown([kind |-> "RPCError", msg |-> history[3].err.msg])

\* C3: apiRequestWithTimeout ends as the first of action and timer to settle
\* decides: with the action's value when the action resolved first, with the
\* message "API request timed out" when the timer expired first.
C3_TimeoutFirstSettlerDecides ==
  racePc = "done" =>
    /\ Len(settleOrder) >= 1
    /\ settleOrder[1] = "timer" =>
         /\ timeoutResult.tag = "err"
         /\ timeoutResult.err.msg = <<"API request timed out">>
    /\ (settleOrder[1] = "action" /\ actionState.tag = "ok") =>
         timeoutResult = actionState

\* the action never settled and the call ended by timeout
C3_Witness ==
  /\ racePc = "done" /\ actionState = Pending
  /\ settleOrder = <<"timer">>
  /\ timeoutResult.tag = "err"
  /\ timeoutResult.err.msg = <<"API request timed out">>

\* C4: the loser of the race is not cancelled and changes nothing: a settled
\* race and a finished call keep their outcome whatever settles later, and
\* after the timer has won a pending action can still settle.
C4_RaceLoserCannotChangeOutcome ==
  /\ [][/\ race # Pending => race' = race
        /\ racePc = "done" => timeoutResult' = timeoutResult]_vars
  /\ []((timerState = "fired" /\ actionState = Pending) =>
          ENABLED (ActionResolves \/ ActionRejects))
  /\ []((actionState \notin {NotRun, Pending} /\ timerState = "armed") =>
          ENABLED TimerFires)

\* the timer won, the call ended, and the action resolved afterwards
C4_Witness ==
  /\ racePc = "done"
  /\ settleOrder = <<"timer", "action">>
  /\ actionState.tag = "ok"
  /\ timeoutResult.tag = "err"
  /\ timeoutResult.err.msg = <<"API request timed out">>

\* C5 as stated: an action error that settles first leaves
\* apiRequestWithTimeout as the same error, unchanged.
C5_ActionErrorPropagatesUnchanged ==
  (racePc = "done" /\ settleOrder[1] = "action" /\ actionState.tag = "err") =>
    timeoutResult = actionState

\* C5 amended: an action error that settles first leaves
\* apiRequestWithTimeout re-wrapped by handleError: a new error of the class
\* of the requested category, with the action error's message when it is an
\* Error instance and 'Unknown error' otherwise; it reads "API request timed
\* out" only if the action's own error did.
C5_ActionErrorRewrappedWithSameMessage ==
  (racePc = "done" /\ settleOrder[1] = "action" /\ actionState.tag = "err") =>
    /\ timeoutResult.tag = "err"
    /\ timeoutResult.err.kind = ErrorClassOf(timeoutErrorType)
    /\ timeoutResult.err.msg =
         IF InstanceOfError(actionState.err)
           THEN actionState.err.msg ELSE <<"Unknown error">>
    /\ timeoutResult.err.msg = <<"API request timed out">> =>
         actionState.err.msg = <<"API request timed out">>

C5_Witness ==
  /\ racePc = "done" /\ settleOrder[1] = "action"
  /\ timeoutErrorType = "RPC"
  /\ actionState = Thrown(NewError(<<"connect ECONNREFUSED">>))
  /\ timeoutResult =
       Thrown([kind |-> "RPCError", msg |-> <<"connect ECONNREFUSED">>])

\* C8: validation of a payload whose error field is set fails with a message
\* that contains the message of that error field.
C8_ErrorFieldFailsWithItsMessage ==
  (validation # NotRun /\ Truthy(response) /\ Truthy(response.error)) =>
    /\ validation.tag = "err"
    /\ Contains(validation.err.msg, response.error.message)

C8_Witness ==
  /\ validation.tag = "err"
  /\ response # Undefined /\ response # Null
  /\ response.error = ErrorField(<<"rate limit", " exceeded">>)
  /\ response.number = HexNumber /\ response.hash = ValidHash

\* C9 as stated: on {number: s, hash: h} with h a well-formed hash,
\* validation succeeds exactly when the string s matches ^0x[a-fA-F0-9]+$.
C9_NumberDecidesBlockValidation ==
  (/\ validation # NotRun /\ Truthy(response)
   /\ response.error = Undefined
   /\ response.number.t = "string"
   /\ TestHexExact(response.hash, HashHexLen)
   /\ response.transactionIndex = Undefined
   /\ response.from = Undefined /\ response.to = Undefined) =>
    (validation.tag = "ok" <=> TestHexPlus(response.number))

\* C10 as stated: on a payload that has transactionIndex, from and to as
\* fields (to possibly null), validation succeeds only if from is an
\* address, to is null or an address, and transactionIndex is hex.
C10_TransactionFieldsDecideValidation ==
  (/\ validation.tag = "ok"
   /\ response.transactionIndex # Undefined
   /\ response.from # Undefined
   /\ response.to # Undefined) =>
    /\ TestHexExact(response.from, AddressHexLen)
    /\ response.to = Null \/ TestHexExact(response.to, AddressHexLen)
    /\ TestHexPlus(response.transactionIndex)

\* the error an attempt ends with when its own timer settled its race
TimedOut == Thrown([kind |-> "RPCError", msg |-> <<"API request timed out">>])

\* C6 as stated: the operation starts one deadline that covers all Transport
\* attempts, so a deadline that expired first is that of the last request
\* sent, and the operation then ends with the timeout error.
C6_OneDeadlineCoversAllAttempts ==
  \A i \in 1..Len(requests) :
       requests[i].first = "timer" =>
         /\ i = Len(requests)
         /\ clientPc = "done" => clientResult = TimedOut

\* C6 amended: the retry sequence encloses the timeout. Every Transport
\* attempt starts a deadline of its own; an attempt whose deadline expires
\* first ends with the RPC-category error "API request timed out"; after a
\* first attempt that timed out a second request is sent; the operation ends
\* with the timeout error when its last attempt timed out.
C6_EachAttemptHasItsOwnDeadline ==
  /\ \A i \in 1..Len(requests) : requests[i].timerState \in {"armed", "fired"}
  /\ \A i \in 1..Len(history) :
       requests[i].first = "timer" => history[i] = TimedOut
  /\ (clientPc = "done" /\ requests # <<>>) =>
       /\ requests[1].first = "timer" => Len(requests) = ClientRetries
       /\ requests[Len(requests)].first = "timer" => clientResult = TimedOut

\* the first deadline expired, a second request was sent and the operation
\* returned its result
C6_Witness ==
  /\ clientPc = "done" /\ operation = "fetchBlockNumber"
  /\ Len(requests) = 2
  /\ requests[1].first = "timer" /\ requests[1].timerState = "fired"
  /\ requests[2].first = "transport" /\ requests[2].timerState = "armed"
  /\ history[1] = TimedOut
  /\ clientResult = Returned(HexNumber)

\* C7: an operation sends at most 2 Transport requests: 1 when the first
\* attempt succeeds, 2 when the first attempt fails by a transport error or
\* by timeout, and the retry sequence is over after the second attempt.
C7_AtMostTwoRequests ==
  /\ Len(requests) <= 2
  /\ invocations = Len(requests)
  /\ Len(history) = 2 => retryPc = "done"
  /\ (clientPc = "done" /\ operation \in NetworkOperations) =>
       /\ Len(history) >= 1
       /\ history[1].tag = "ok" => Len(requests) = 1
       /\ history[1].tag = "err" => Len(requests) = 2

\* both attempts failed, the first by timeout and the second by a transport
\* error, and no third request was sent
C7_Witness ==
  /\ clientPc = "done" /\ operation \in NetworkOperations
  /\ Len(requests) = 2
  /\ requests[1].first = "timer"
  /\ requests[2].first = "transport" /\ requests[2].transport.tag = "err"
  /\ clientResult.tag = "err"

\* C11: validation fails for a null or undefined payload ("Response is null
\* or undefined") and for every payload object that has none of number, hash
\* and transactionIndex, whatever its other members.
C11_NoPayloadOrNoMarkerFails ==
  validation # NotRun =>
    /\ response \in {Undefined, Null} =>
         /\ validation.tag = "err"
         /\ validation.err.msg = <<"Response is null or undefined">>
    /\ (/\ response \notin {Undefined, Null}
        /\ response.number = Undefined
        /\ response.hash = Undefined
        /\ response.transactionIndex = Undefined) =>
         validation.tag = "err"

\* no marker member, but from and to are well-formed addresses
C11_Witness ==
  /\ validation.tag = "err"
  /\ validation.err.msg = <<"Block or transaction response are invalid">>
  /\ response \notin {Undefined, Null}
  /\ response.number = Undefined /\ response.hash = Undefined
  /\ response.transactionIndex = Undefined
  /\ response.from = ValidAddress /\ response.to = ValidAddress

\* C12 as stated: fetchBlockNumber returns only strings that match
\* ^0x[a-fA-F0-9]+$, and a result that does not match makes it fail.
C12_ReturnedBlockNumberIsHex ==
  (clientPc = "done" /\ operation = "fetchBlockNumber") =>
    /\ clientResult.tag = "ok" => TestHexPlus(clientResult.value)
    /\ (/\ retryResult.tag = "ok"
        /\ ~TestHexPlus(retryResult.value)) => clientResult.tag = "err"

\* C13 as stated: fetchBlockDetails returns only blocks whose number matches
\* ^0x[a-fA-F0-9]+$ and whose hash matches ^0x[a-fA-F0-9]{64}$.
C13_ReturnedBlockIsValidated ==
  (/\ clientPc = "done" /\ operation = "fetchBlockDetails"
   /\ clientResult.tag = "ok") =>
    /\ TestHexPlus(clientResult.value.number)
    /\ TestHexExact(clientResult.value.hash, HashHexLen)

\* C14: fetchTransactionHash called with no block details, with a block that
\* has no transactions member or with an empty transactions list fails with
\* "Block details or transactions are not available"; retryApiRequest is not
\* entered, no action is invoked, no timer is armed and nothing is validated.
C14_UnavailableTransactionsFailAtOnce ==
  (/\ operation = "fetchTransactionHash"
   /\ \/ argument \in {Undefined, Null}
      \/ argument.transactions = Undefined
      \/ argument.transactions = Array(<<>>)) =>
    /\ invocations = 0 /\ attempts = 0 /\ history = <<>>
    /\ requests = <<>> /\ retryPc = "loop" /\ retryResult = NotRun
    /\ validation = NotRun
    /\ clientPc = "done" =>
         clientResult = Thrown([kind |-> "Error", msg |->
           <<"Block details or transactions are not available">>])

\* the call with an empty transactions list has failed
C14_Witness ==
  /\ clientPc = "done" /\ operation = "fetchTransactionHash"
  /\ argument = Block(HexNumber, ValidHash, Array(<<>>))
  /\ clientResult.tag = "err"
  /\ requests = <<>>

\* C15 as stated: with a non-empty list fetchTransactionHash returns
\* transactions[0] when it is "0x" and 64 hexadecimal digits, and fails for
\* every other first element.
C15_FirstTransactionIsValidated ==
  (/\ clientPc = "done" /\ operation = "fetchTransactionHash"
   /\ argument \notin {Undefined, Null}
   /\ argument.transactions # Undefined
   /\ argument.transactions # Array(<<>>)) =>
    IF TestHexExact(argument.transactions.items[1], HashHexLen)
      THEN clientResult = Returned(argument.transactions.items[1])
      ELSE clientResult.tag = "err"

\* The operators through which the builder calls the client agree with the
\* client's own steps: a finished operation has ended as ClientOutcome says
\* for the outcomes of its invocations, and has sent what ClientRequests says.
ClientAgreesWithOutcome ==
  clientPc = "done" =>
    /\ clientResult = ClientOutcome(operation, argument, history)
    /\ operation \in NetworkOperations =>
         /\ history \in AttemptRuns(AttemptOutcomes(operation, argument,
                          Answers(operation)), ClientRetries)
         /\ [i \in 1..Len(requests) |->
               [method |-> requests[i].method, params |-> requests[i].params]]
              = ClientRequests(operation, argument, history)
    /\ (operation = "fetchTransactionHash" /\ requests # <<>>) =>
         history \in AttemptRuns(AttemptOutcomes(operation, argument, {}),
                       ClientRetries)

\* C16: a call of the builder's fetchBlockDetails while no block number is
\* stored fails with "Block number is not available", sends no request and
\* leaves blockNumber, blockDetails and transactionHash as they were.
C16_BlockDetailsNeedBlockNumber ==
  [][(/\ blockNumber = Null
      /\ BuilderRejectsFetchBlockDetails \/ BuilderFetchBlockDetails) =>
       /\ stageResult' = Thrown([kind |-> "Error", msg |->
                                  <<"Block number is not available">>])
       /\ sent' = <<>>
       /\ UNCHANGED <<blockNumber, blockDetails, transactionHash>>]_vars

\* fetchBlockDetails was called on a builder without block number
C16_Witness ==
  /\ stage = "fetchBlockDetails" /\ blockNumber = Null
  /\ stageResult.tag = "err" /\ sent = <<>>

\* C17: a call of the builder's fetchTransactionDetails while no transaction
\* hash is stored fails with "Transaction hash is not available" and sends
\* no request.
C17_TransactionDetailsNeedHash ==
  [][(/\ transactionHash = Null
      /\ \/ BuilderRejectsFetchTransactionDetails
         \/ BuilderFetchTransactionDetails) =>
       /\ stageResult' = Thrown([kind |-> "Error", msg |->
                                  <<"Transaction hash is not available">>])
       /\ sent' = <<>>]_vars

\* fetchTransactionDetails was called after block number and block details
\* were fetched, but no transaction hash
C17_Witness ==
  /\ stage = "fetchTransactionDetails" /\ transactionHash = Null
  /\ blockDetails # Null
  /\ stageResult.tag = "err" /\ sent = <<>>

\* C18 as stated: when the block held no transactions at the first 2 polls
\* and holds some at the 3rd, fetchTransactionHash succeeds after exactly 2
\* delays and stores the first transaction of the list that is there now.
C18_PollingSeesArrivedTransactions ==
  (/\ stage = "fetchTransactionHash" /\ builderPc = "idle"
   /\ blockDetails # Null
   /\ Len(observed) >= 3
   /\ observed[1] = Array(<<>>) /\ observed[2] = Array(<<>>)
   /\ observed[3] # Array(<<>>)
   /\ TestHexExact(observed[3].items[1], HashHexLen)) =>
    /\ stageResult = Returned(This)
    /\ waited = 2 * 2000
    /\ transactionHash = observed[3].items[1]

\* C19: when the stored block details are absent or hold an empty
\* transactions list, fetchTransactionHash ends, after exactly 3 delays of
\* 2000 ms, with "Block details or transactions are not available after
\* maximum retries"; it sends nothing and no step of it changes
\* transactionHash.
C19_PollingGivesUpAfterThreeDelays ==
  /\ []((/\ stage = "fetchTransactionHash" /\ builderPc = "idle"
         /\ \/ blockDetails = Null
            \/ blockDetails.transactions = Array(<<>>)) =>
          /\ stageResult = Thrown([kind |-> "Error", msg |->
               <<"Block details or transactions are not available after maximum retries">>])
          /\ pollRetries = 3 /\ waited = 3 * 2000
          /\ sent = <<>>)
  /\ [][(/\ stage' = "fetchTransactionHash"
         /\ \/ blockDetails = Null
            \/ blockDetails.transactions = Array(<<>>)) =>
          /\ transactionHash' = transactionHash
          /\ (builderPc = "delay" /\ builderPc' = "poll") =>
               waited' = waited + 2000]_vars

\* a fresh block without transactions was fetched and polling gave up
C19_Witness ==
  /\ stage = "fetchTransactionHash" /\ builderPc = "idle"
  /\ blockDetails # Null /\ blockDetails.transactions = Array(<<>>)
  /\ transactionHash = Null
  /\ stageResult.tag = "err" /\ waited = 6000

\* C20: in the end-to-end scenario every stage succeeds; the stored block
\* number and block details are the results the node supplied, the stored
\* transaction hash is the first element of the supplied block's transaction
\* list, and the fourth stage returns the supplied transaction.
C20_ScenarioStoresWhatNodeSupplied ==
  /\ builderPc = "idle" =>
       /\ stage # "none" => stageResult.tag = "ok"
       /\ stage = "none" => builderFields = <<Null, Null, Null>>
       /\ stage = "fetchBlockNumber" =>
            builderFields = <<supplied[1], Null, Null>>
       /\ stage = "fetchBlockDetails" =>
            builderFields = <<supplied[1], supplied[2], Null>>
       /\ stage \in {"fetchTransactionHash", "fetchTransactionDetails"} =>
            builderFields =
              <<supplied[1], supplied[2], supplied[2].transactions.items[1]>>
       /\ stage = "fetchTransactionDetails" =>
            stageResult = Returned(supplied[3])
  /\ waited = 0
  /\ Len(sent) <= 1

\* the four stages have run on a block with two transactions
C20_Witness ==
  /\ stage = "fetchTransactionDetails" /\ builderPc = "idle"
  /\ Len(supplied) = 3
  /\ stageResult = Returned(supplied[3])
  /\ blockDetails.transactions = Array(<<OtherValidHash, ValidHash>>)
  /\ transactionHash = OtherValidHash

\* C21 as stated: fetchTransactionHash called while no block details are
\* stored fails at once: no delay elapses and no request is sent before the
\* failure is reported.
C21_MissingBlockDetailsFailFast ==
  (stage = "fetchTransactionHash" /\ blockDetails = Null) =>
    /\ builderPc # "delay"
    /\ waited = 0
    /\ sent = <<>>
    /\ builderPc = "idle" => stageResult.tag = "err"

\* C22 as stated: each stored field is written at most once, so a field that
\* holds a value keeps that value in every later step.
C22_FieldsWrittenAtMostOnce ==
  [][/\ blockNumber # Null => blockNumber' = blockNumber
     /\ blockDetails # Null => blockDetails' = blockDetails
     /\ transactionHash # Null => transactionHash' = transactionHash]_vars

\* C30 as stated: with stored block details that have no transactions member
\* fetchTransactionHash ends with an Error whose message begins "Block
\* details or transactions are not available", and no stage ends with a
\* TypeError.
C30_NoStageCrashes ==
  /\ stageResult.tag = "err" => stageResult.err.kind # "TypeError"
  /\ (/\ stage = "fetchTransactionHash" /\ builderPc = "idle"
      /\ blockDetails # Null
      /\ blockDetails.transactions = Undefined) =>
       /\ stageResult.tag = "err"
       /\ stageResult.err.msg \in
            {<<"Block details or transactions are not available">>,
             <<"Block details or transactions are not available after maximum retries">>}

\* C23 as stated: every failure of a client operation is an RPCError or a
\* GenericAPIError.
C23_EveryFailureIsTagged ==
  (clientPc = "done" /\ clientResult.tag = "err") =>
    clientResult.err.kind \in {"RPCError", "GenericAPIError"}

\* C27 as stated: a validation failure goes to the retry layer, so an
\* operation that ends with a validation failure has used both attempts.
C27_ValidationFailureIsRetried ==
  (/\ clientPc = "done" /\ operation \in NetworkOperations
   /\ validation.tag = "err") =>
    /\ Len(requests) = ClientRetries
    /\ invocations = ClientRetries

\* request i was answered, before its timer fired, by a body whose error
\* member is populated
AnsweredWithError(i) ==
  /\ requests[i].first = "transport"
  /\ requests[i].answer.k = "body"
  /\ Truthy(requests[i].answer.error)

\* C24: when every attempt of a network operation is answered by a body with
\* a populated error, the operation fails after 2 attempts, without
\* validating anything, with an RPCError whose message is "RPC Error: "
\* followed by the message of the (last) error member.
C24_EndpointErrorMessageSurvives ==
  (/\ clientPc = "done" /\ operation \in NetworkOperations
   /\ \A i \in 1..Len(requests) : AnsweredWithError(i)) =>
    /\ Len(requests) = 2
    /\ validation = NotRun
    /\ clientResult = Thrown([kind |-> "RPCError", msg |->
         <<"RPC Error: ">> \o requests[2].answer.error.message])

\* both attempts were answered with the error "execution reverted"
C24_Witness ==
  /\ clientPc = "done" /\ operation = "fetchBlockDetails"
  /\ Len(requests) = 2
  /\ \A i \in 1..2 :
       /\ AnsweredWithError(i)
       /\ requests[i].answer.error.message = <<"execution reverted">>
  /\ clientResult.tag = "err"
  /\ clientResult.err.msg = <<"RPC Error: ", "execution reverted">>

\* a body with neither error nor result (or a null result), or with both
MalformedBody(a) ==
  /\ a.k = "body"
  /\ \/ ~Truthy(a.error) /\ a.result \in {Undefined, Null}
     \/ Truthy(a.error) /\ a.result # Undefined

\* C25: a network operation never returns undefined or null; an attempt
\* answered by a body with error and result both populated fails, and an
\* operation whose last attempt was answered by a malformed body fails.
C25_MalformedResponseNeverSucceeds ==
  (clientPc = "done" /\ operation \in NetworkOperations) =>
    /\ clientResult.tag = "ok" => clientResult.value \notin {Undefined, Null}
    /\ \A i \in 1..Len(history) :
         (/\ requests[i].first = "transport"
          /\ MalformedBody(requests[i].answer)) =>
           /\ Truthy(requests[i].answer.error) => history[i].tag = "err"
           /\ i = Len(requests) => clientResult.tag = "err"

\* a body without error and result ended the operation with a failure
C25_Witness ==
  /\ clientPc = "done" /\ operation = "fetchBlockNumber"
  /\ Len(requests) = 1
  /\ requests[1].first = "transport"
  /\ requests[1].answer = Body(Undefined, Undefined)
  /\ clientResult.tag = "err"

\* C28 as stated: at no time are two Transport requests of one operation in
\* flight.
C28_OneRequestInFlight ==
  Cardinality({i \in 1..Len(requests) : requests[i].transport = Pending}) <= 1

\* C28 amended: attempts are sequential in that the next request is issued
\* only after the previous attempt has ended with a failure; a request that
\* is still in flight then belongs to an attempt that ended by timeout, so
\* after a timeout two requests of the operation can be in flight at once.
C28_NextRequestAfterAttemptEnded ==
  \A i \in 1..Len(requests) :
    i < Len(requests) =>
      /\ requests[i].race # Pending
      /\ history[i].tag = "err"
      /\ requests[i].transport = Pending =>
           /\ requests[i].first = "timer"
           /\ requests[i].timerState = "fired"
           /\ history[i] = TimedOut

\* the first attempt timed out and both requests are in flight
C28_Witness ==
  /\ operation \in NetworkOperations
  /\ Len(requests) = 2
  /\ requests[1].transport = Pending /\ requests[2].transport = Pending
  /\ requests[1].first = "timer"

\* C26: every eth_getBlockByNumber request a stage sends is sent while a
\* block number is stored and carries [that block number, false]; every
\* eth_getTransactionByHash request is sent while a transaction hash is
\* stored and carries that hash as its only parameter.
C26_RequestsFollowDependencies ==
  [][\A i \in 1..Len(sent') :
       /\ sent'[i].method = "eth_getBlockByNumber" =>
            /\ blockNumber # Null
            /\ sent'[i].params = <<blockNumber, FALSE>>
       /\ sent'[i].method = "eth_getTransactionByHash" =>
            /\ transactionHash # Null
            /\ sent'[i].params = <<transactionHash>>]_vars

\* fetchBlockDetails was called again after a transaction hash was stored
\* and has sent two requests
C26_Witness ==
  /\ stage = "fetchBlockDetails" /\ transactionHash # Null
  /\ Len(sent) = 2
  /\ sent[2] = [method |-> "eth_getBlockByNumber",
                params |-> <<blockNumber, FALSE>>]

\* C29: a call of the builder's fetchTransactionDetails leaves blockNumber,
\* blockDetails and transactionHash as they were, whether it fails or not;
\* when it succeeds, its requests carried the stored hash and it returns a
\* payload that validateApiResponse accepts.
C29_TransactionDetailsChangeNothing ==
  [][(\/ BuilderRejectsFetchTransactionDetails
      \/ BuilderFetchTransactionDetails) =>
       /\ UNCHANGED <<blockNumber, blockDetails, transactionHash>>
       /\ stageResult'.tag = "ok" =>
            /\ validateApiResponse(stageResult'.value, "RPC").tag = "ok"
            /\ sent' # <<>>
            /\ \A i \in 1..Len(sent') : sent'[i].params = <<transactionHash>>]_vars

\* fetchTransactionDetails has returned a transaction at its second attempt
C29_Witness ==
  /\ stage = "fetchTransactionDetails"
  /\ stageResult.tag = "ok"
  /\ stageResult.value.hash = transactionHash
  /\ transactionHash = OtherValidHash
  /\ Len(sent) = 2

\* C31: handleError always throws: 'RPC' gives an RPCError, 'WALLET_API' a
\* WalletAPIError, 'USER_API' a UserAPIError and every other string a
\* GenericAPIError; the message is that of the cause when the cause is an
\* Error and 'Unknown error' otherwise.
C31_HandleErrorMapsCategoryToKind ==
  (racePc = "done" /\ race.tag = "err") =>
    /\ timeoutResult.tag = "err"
    /\ timeoutErrorType = "RPC" => timeoutResult.err.kind = "RPCError"
    /\ timeoutErrorType = "WALLET_API" =>
         timeoutResult.err.kind = "WalletAPIError"
    /\ timeoutErrorType = "USER_API" => timeoutResult.err.kind = "UserAPIError"
    /\ timeoutErrorType \notin {"RPC", "WALLET_API", "USER_API"} =>
         timeoutResult.err.kind = "GenericAPIError"
    /\ race.err.kind \in {"Error", "RPCError", "WalletAPIError",
                          "UserAPIError", "GenericAPIError"} =>
         timeoutResult.err.msg = race.err.msg
    /\ race.err.kind = "NonError" =>
         timeoutResult.err.msg = <<"Unknown error">>

\* a thrown value that is no Error was handled in the category USER_API
C31_Witness ==
  /\ racePc = "done" /\ timeoutErrorType = "USER_API"
  /\ race.tag = "err" /\ race.err.kind = "NonError"
  /\ timeoutResult =
       Thrown([kind |-> "UserAPIError", msg |-> <<"Unknown error">>])

\* C40: retryApiRequest called with retries <= 0 never invokes action and
\* throws 'All retries failed' as an error of the requested category; with
\* retries >= 1 a finished call has invoked action and never ends with that
\* fallback error.
C40_FallbackOnlyWithoutRetries ==
  /\ retries <= 0 =>
       /\ invocations = 0 /\ history = <<>>
       /\ retryPc = "done" =>
            /\ retryResult.tag = "err"
            /\ retryResult.err.msg = <<"All retries failed">>
            /\ retryErrorType = "RPC" => retryResult.err.kind = "RPCError"
            /\ retryErrorType = "WALLET_API" =>
                 retryResult.err.kind = "WalletAPIError"
            /\ retryErrorType = "USER_API" =>
                 retryResult.err.kind = "UserAPIError"
            /\ retryErrorType \in {"GENERIC_API", "rpc"} =>
                 retryResult.err.kind = "GenericAPIError"
  /\ (retries >= 1 /\ retryPc = "done") =>
       /\ invocations >= 1
       /\ retryResult.tag = "err" =>
            retryResult.err.msg # <<"All retries failed">>

\* a call with a negative budget ended with the fallback error
C40_Witness ==
  /\ retries = -1 /\ retryPc = "done" /\ retryErrorType = "WALLET_API"
  /\ invocations = 0
  /\ retryResult =
       Thrown([kind |-> "WalletAPIError", msg |-> <<"All retries failed">>])

\* a call with a budget of one ended after its only invocation failed
C40_WitnessPositive ==
  /\ retries = 1 /\ retryPc = "done" /\ invocations = 1
  /\ retryResult.tag = "err"

\* a field of the builder holds a value: it is no longer the null it was
\* constructed with
Stored(field) == field # Null

\* C36: in every reachable state of the builder, a stored transactionHash
\* implies stored blockDetails and stored blockDetails imply a stored
\* blockNumber, whatever stages were called and however they ended; a stored
\* field holds a truthy value and no step makes it unset again.
C36_FieldsStoredInOrder ==
  /\ [](/\ Stored(transactionHash) => Stored(blockDetails)
        /\ Stored(blockDetails) => Stored(blockNumber)
        /\ \A field \in {blockNumber, blockDetails, transactionHash} :
             Stored(field) => Truthy(field))
  /\ [][/\ Stored(blockNumber) => Stored(blockNumber')
        /\ Stored(blockDetails) => Stored(blockDetails')
        /\ Stored(transactionHash) => Stored(transactionHash')]_vars

\* all three fields are stored and the stage called last has failed
C36_Witness ==
  /\ Stored(blockNumber) /\ Stored(blockDetails) /\ Stored(transactionHash)
  /\ builderPc = "idle" /\ stage = "fetchBlockDetails"
  /\ stageResult.tag = "err"

\* C37: a stage of the builder that fails (transport error, timeout,
\* validation failure, missing precondition, polling exhaustion) leaves
\* blockNumber, blockDetails and transactionHash as they were before the
\* call: no step that ends a stage with an error, and no step of a polling
\* loop that is still running, changes any of the three fields.
C37_FailedStageKeepsFields ==
  [][/\ (builderPc' = "idle" /\ stageResult'.tag = "err") =>
          UNCHANGED builderFields
     /\ builderPc' # "idle" => UNCHANGED builderFields]_vars

\* fetchBlockNumber failed after requests were sent while all three fields
\* were stored
C37_Witness ==
  /\ builderPc = "idle" /\ stage = "fetchBlockNumber"
  /\ stageResult.tag = "err" /\ Len(sent) = ClientRetries
  /\ Stored(blockNumber) /\ Stored(blockDetails) /\ Stored(transactionHash)

\* C38: whenever transactionHash is stored it is the first element of the
\* transactions of the stored blockDetails, and the stored blockDetails are
\* those fetched for the stored blockNumber: blockNumber does not change
\* under block details that stay as they are.
C38_StoredFieldsConsistent ==
  /\ [](Stored(transactionHash) =>
          /\ ~TransactionsUnavailable(blockDetails)
          /\ transactionHash = FirstTransaction(blockDetails))
  /\ [][(Stored(blockDetails) /\ blockDetails' = blockDetails) =>
          blockNumber' = blockNumber]_vars

\* C33: RpcAPIClient keeps no state across calls. No step changes the
\* endpoint URL of the instance, every request is posted to that URL, and
\* however the call before ended, a finished operation has ended as its
\* operation, its argument and the outcomes of its own invocations determine.
C33_ClientStatelessAcrossCalls ==
  /\ [][nodeUrl' = nodeUrl]_vars
  /\ [](\A i \in 1..Len(requests) :
          requests[i].method # "none" => requests[i].nodeUrl = nodeUrl)
  /\ [](clientPc = "done" =>
          IF operation \in NetworkOperations
            THEN /\ history \in AttemptRuns(AttemptOutcomes(operation,
                                  argument, Answers(operation)), ClientRetries)
                 /\ clientResult = ClientOutcome(operation, argument, history)
          ELSE IF requests = <<>>
            THEN clientResult = ClientOutcome(operation, argument, <<>>)
          ELSE /\ history \in AttemptRuns(AttemptOutcomes(operation, argument,
                                {}), ClientRetries)
               /\ clientResult = ClientOutcome(operation, argument, history))

\* an operation that succeeded at its second request after a call that failed
C33_Witness ==
  /\ previous = "err" /\ clientPc = "done"
  /\ operation = "fetchBlockNumber" /\ Len(requests) = ClientRetries
  /\ clientResult.tag = "ok"

\* C32: createRequest posts once per invocation and neither retries nor
\* times out by itself: there is one request per invocation of the action,
\* a request settles only by the one answer to its POST, even after the
\* caller's timer has fired, and it settles as that answer says: an HTTP
\* failure is rethrown as it is, a body with a populated error member is
\* thrown as 'RPC Error: ' and the member's message, and any other body is
\* returned unchanged, so that callRpcMethod hands out its result member.
C32_CreateRequestPostsOnce ==
  operation \in NetworkOperations =>
    /\ Len(requests) = invocations
    /\ \A i \in 1..Len(requests) :
         LET q == requests[i] IN
           /\ q.transport = Pending <=> q.answer = NoAnswer
           /\ q.answer.k = "failure" =>
                q.transport = Thrown([kind |-> "Error", msg |-> q.answer.message])
           /\ q.answer.k = "body" =>
                IF Truthy(q.answer.error)
                  THEN q.transport = Thrown([kind |-> "Error", msg |->
                         <<"RPC Error: ">> \o q.answer.error.message])
                  ELSE /\ createRequest(q.answer) = Returned(q.answer)
                       /\ q.transport = Returned(q.answer.result)

\* the first request failed at the HTTP layer and was not posted again by
\* createRequest; the second, posted by the retry, returned its body's result
C32_Witness ==
  /\ operation = "fetchBlockNumber" /\ Len(requests) = 2 /\ invocations = 2
  /\ requests[1].answer.k = "failure" /\ requests[1].transport.tag = "err"
  /\ requests[2].answer.k = "body"
  /\ requests[2].transport = Returned(requests[2].answer.result)
  /\ requests[2].transport.value = Str(<<"0", "x", "a">>)

\* the timers of the operation's requests that have fired
ExpiredTimers == {i \in 1..Len(requests) : requests[i].timerState = "fired"}

\* C35: with timers that fire, every network operation of the client ends,
\* with a value or a failure, also when no request is ever answered, and no
\* more than 2 timers expire for it; a call of the builder's
\* fetchTransactionHash ends after at most 3 polling delays.
C35_OperationsTerminate ==
  /\ (clientPc = "call") ~> (clientPc = "done")
  /\ [](clientPc = "done" => clientResult.tag \in {"ok", "err"})
  /\ [](Cardinality(ExpiredTimers) <= 2)
  /\ (builderPc \in {"poll", "delay"}) ~> (builderPc = "idle")
  /\ []((stage = "fetchTransactionHash" /\ builderPc = "idle") =>
          stageResult.tag \in {"ok", "err"})
  /\ [](pollRetries <= 3 /\ waited <= 3 * RETRY_DELAY)

\* the endpoint answered none of the two requests and the operation ended by
\* the second timer
C35_Witness ==
  /\ clientPc = "done" /\ operation \in NetworkOperations
  /\ Len(requests) = 2 /\ Cardinality(ExpiredTimers) = 2
  /\ \A i \in 1..2 : requests[i].answer = NoAnswer
  /\ clientResult.tag = "err"
  /\ clientResult.err.msg = <<"API request timed out">>

\* fetchTransactionHash ended after three polling delays
C35_WitnessPolling ==
  /\ stage = "fetchTransactionHash" /\ builderPc = "idle"
  /\ pollRetries = 3 /\ waited = 3 * RETRY_DELAY
  /\ stageResult.tag = "err"

\* C34: every call of copyNodeUrls that succeeds, the first and each later
\* one on the same NodeFlow, returns as site1 the URL of the node's first
\* URL field and as site2 the URL of its second URL field.
C34_CopyReturnsBothFields ==
  (copyPc = "done" /\ copyResult.tag = "ok") =>
    /\ copyResult.value.site1 = urlFields[1]
    /\ copyResult.value.site2 = urlFields[2]

\* C39: performLogin returns normally only if the most recent call of
\* isLoggedIn returned true; with an empty email or password, when not
\* logged in and no CAPTCHA is shown, and when still not logged in after the
\* CAPTCHA pause and one more submit, it throws; no call clicks the submit
\* button more than twice.
C39_LoginReturnsOnlyWhenLoggedIn ==
  /\ submitClicks <= 2
  /\ loginPc = "done" =>
       /\ loginResult.tag \in {"ok", "err"}
       /\ loginResult.tag = "ok" =>
            /\ checks # <<>> /\ checks[Len(checks)] = TRUE
            /\ Truthy(email) /\ Truthy(password)
       /\ (~Truthy(email) \/ ~Truthy(password)) =>
            /\ loginResult = Thrown([kind |-> "Error", msg |->
                                      <<"Email or password is empty">>])
            /\ submitClicks = 0 /\ checks = <<>>
       /\ (checks # <<>> /\ checks[Len(checks)] = FALSE) =>
            loginResult.tag = "err"
       /\ Len(checks) = 3 => submitClicks = 2

\* the login succeeded at the check after the second click of submit
C39_Witness ==
  /\ loginPc = "done" /\ loginResult = Returned(Undefined)
  /\ checks = <<FALSE, FALSE, TRUE>> /\ submitClicks = 2

\* not logged in and no CAPTCHA shown: the call threw after one click
C39_WitnessNoCaptcha ==
  /\ loginPc = "done" /\ checks = <<FALSE>> /\ submitClicks = 1
  /\ loginResult.tag = "err"
  /\ loginResult.err.msg =
       <<"Login failed after CAPTCHA. Browser will remain open for debugging.">>

====
